---- MODULE Spec2Model ----
(***************************************************************************)
(* A model of the content merge engine of ukmm: the parameter diff/merge   *)
(* algebra of uk-content (util/mod.rs) and the merge orchestrator of       *)
(* uk-mod (unpack.rs) over the game-dump reader's cache (uk-reader).       *)
(***************************************************************************)
EXTENDS Integers, Sequences, FiniteSets, TLC

VARIABLES
    pkind,      \* parameter algebra: "pobj", "plist", "byml", "index" or "none"
    base,       \* parameter algebra: the base operand
    other,      \* parameter algebra: the other operand; in a fold, the number
                \* of patches merged so far
    patch,      \* parameter algebra: diff(base, other), or other taken as the patch
    merged,     \* parameter algebra: merge(base, patch) once computed
    ppc,        \* parameter algebra: "init", "diffed", "merged", "applied" or "off"
    dump,       \* unpack: the game dump, the state of each loose file
    mods,       \* unpack: the mod readers, lowest priority first
    manifest,   \* unpack: the explicit manifest (with_manifest), if any
    cache,      \* unpack: the dump reader's resource cache
    jobs,       \* unpack: one build per touched file and root
    phase,      \* unpack: "content", "aoc", "end" or "off"
    outFiles,   \* unpack: the files present in the output directory
    writes,     \* unpack: how often each output file has been written
    rstb,       \* unpack: the (canonical path, size) pair of each built file
    result,     \* unpack: what unpack returned
    builds      \* unpack: the build_file calls that returned Ok

pvars == <<pkind, base, other, patch, merged, ppc>>

inputs == <<dump, mods, manifest>>

uvars == <<dump, mods, manifest, cache, jobs, phase, outFiles, writes, rstb,
           result, builds>>

vars == <<pkind, base, other, patch, merged, ppc, dump, mods, manifest, cache,
          jobs, phase, outFiles, writes, rstb, result, builds>>

(***************************************************************************)
(* Bounds of the model.                                                    *)
(***************************************************************************)
MaxKey == 2
MaxVal == 2
MaxDepth == 2

(***************************************************************************)
(* IndexMap: an insertion-ordered map, held as a sequence of <<key, value>>*)
(* pairs with distinct keys.                                               *)
(***************************************************************************)
Keys(m) == {m[i][1] : i \in DOMAIN m}

HasKey(m, k) == k \in Keys(m)

IndexOf(m, k) == CHOOSE i \in DOMAIN m : m[i][1] = k

Get(m, k) == m[IndexOf(m, k)][2]

\* IndexMap::insert: an existing key keeps its position and takes the new
\* value; a new key is appended.
Insert(m, k, v) ==
    IF HasKey(m, k)
    THEN [m EXCEPT ![IndexOf(m, k)] = <<k, v>>]
    ELSE Append(m, <<k, v>>)

RECURSIVE InsertAll(_, _)
InsertAll(m, pairs) ==
    IF pairs = <<>> THEN m
    ELSE InsertAll(Insert(m, Head(pairs)[1], Head(pairs)[2]), Tail(pairs))

\* FromIterator for IndexMap: insert the pairs in iteration order.
Collect(pairs) == InsertAll(<<>>, pairs)

\* The map as a function from key to value, forgetting the order.
ToMap(m) == [k \in Keys(m) |-> Get(m, k)]

\* PartialEq of IndexMap compares key-value pairs regardless of order.
PObjEq(a, b) == ToMap(a) = ToMap(b)

RECURSIVE PListEq(_, _)
PListEq(a, b) ==
    /\ Keys(a.objects) = Keys(b.objects)
    /\ \A k \in Keys(a.objects) : PObjEq(Get(a.objects, k), Get(b.objects, k))
    /\ Keys(a.lists) = Keys(b.lists)
    /\ \A k \in Keys(a.lists) : PListEq(Get(a.lists, k), Get(b.lists, k))

(***************************************************************************)
(* util/mod.rs: the parameter diff and merge.                              *)
(***************************************************************************)
diff_pobj_all(b, o) == o

diff_pobj_added_only(b, o) == Collect(SelectSeq(o, LAMBDA e : ~HasKey(b, e[1])))

diff_pobj(b, o) ==
    Collect(SelectSeq(o, LAMBDA e : ~HasKey(b, e[1]) \/ Get(b, e[1]) # e[2]))

merge_pobj_base_wins(b, d) == Collect(d \o b)

merge_pobj_patch_only(b, d) == Collect(d)

merge_pobj(b, d) == Collect(b \o d)

RECURSIVE DiffObjects(_, _)
DiffObjects(bo, oo) ==
    IF oo = <<>> THEN <<>>
    ELSE LET k == Head(oo)[1]
             v == Head(oo)[2]
             rest == DiffObjects(bo, Tail(oo))
         IN  IF ~HasKey(bo, k) THEN <<<<k, v>>>> \o rest
             ELSE IF ~PObjEq(Get(bo, k), v)
                  THEN <<<<k, diff_pobj(Get(bo, k), v)>>>> \o rest
                  ELSE rest

DiffLists_whole(bl, ol) ==
    SelectSeq(ol, LAMBDA e : ~HasKey(bl, e[1]) \/ ~PListEq(Get(bl, e[1]), e[2]))

RECURSIVE diff_plist(_, _)
RECURSIVE DiffLists(_, _)
DiffLists(bl, ol) ==
    IF ol = <<>> THEN <<>>
    ELSE LET k == Head(ol)[1]
             v == Head(ol)[2]
             rest == DiffLists(bl, Tail(ol))
         IN  IF ~HasKey(bl, k) THEN <<<<k, v>>>> \o rest
             ELSE IF ~PListEq(Get(bl, k), v)
                  THEN <<<<k, diff_plist(Get(bl, k), v)>>>> \o rest
                  ELSE rest

diff_plist(b, o) ==
    [lists   |-> Collect(DiffLists(b.lists, o.lists)),
     objects |-> Collect(DiffObjects(b.objects, o.objects))]

MergeObjects_replace(new, d) == InsertAll(new, d)

RECURSIVE MergeObjects(_, _)
MergeObjects(new, d) ==
    IF d = <<>> THEN new
    ELSE LET k == Head(d)[1]
             v == Head(d)[2]
         IN  IF ~HasKey(new, k)
             THEN MergeObjects(Insert(new, k, v), Tail(d))
             ELSE MergeObjects(Insert(new, k, merge_pobj(Get(new, k), v)), Tail(d))

MergeLists_replace(new, d) == InsertAll(new, d)

RECURSIVE merge_plist(_, _)
RECURSIVE MergeLists(_, _)
MergeLists(new, d) ==
    IF d = <<>> THEN new
    ELSE LET k == Head(d)[1]
             v == Head(d)[2]
         IN  IF ~HasKey(new, k)
             THEN MergeLists(Insert(new, k, v), Tail(d))
             ELSE MergeLists(Insert(new, k, merge_plist(Get(new, k), v)), Tail(d))

merge_plist_overwrite(b, d) ==
    [objects |-> InsertAll(b.objects, d.objects),
     lists   |-> InsertAll(b.lists, d.lists)]

merge_plist(b, d) ==
    [objects |-> MergeObjects(b.objects, d.objects),
     lists   |-> MergeLists(b.lists, d.lists)]

(***************************************************************************)
(* util/mod.rs: the shallow diff and merge of a binary-YAML hash and of an *)
(* index map. A hash is a function from its keys to values; a document is  *)
(* a hash or Null.                                                         *)
(***************************************************************************)
Null == 0

Hash(h) == [hash |-> h]

NullDoc == [null |-> TRUE]

IsHash(d) == "hash" \in DOMAIN d

diff_byml_shallow_no_sentinel(b, o) ==
    Hash([k \in {k \in DOMAIN o.hash :
                    k \notin DOMAIN b.hash \/ b.hash[k] # o.hash[k]} |-> o.hash[k]])

\* The entries of other that base does not hold with the same value,
\* chained with a Null entry for every key of base that other lacks.
diff_byml_shallow(b, o) ==
    LET changed == {k \in DOMAIN o.hash :
                       k \notin DOMAIN b.hash \/ b.hash[k] # o.hash[k]}
        gone == DOMAIN b.hash \ DOMAIN o.hash
    IN  Hash([k \in changed \cup gone |->
                 IF k \in changed THEN o.hash[k] ELSE Null])

merge_byml_shallow_keep_base(b, d) ==
    IF IsHash(d)
    THEN Hash([k \in DOMAIN b.hash \cup DOMAIN d.hash |->
                  IF k \in DOMAIN b.hash THEN b.hash[k] ELSE d.hash[k]])
    ELSE b

\* The entries of base chained with those of diff, collected: a key of
\* diff replaces the entry of base. A Null diff leaves base.
merge_byml_shallow(b, d) ==
    IF IsHash(d)
    THEN Hash([k \in DOMAIN b.hash \cup DOMAIN d.hash |->
                  IF k \in DOMAIN d.hash THEN d.hash[k] ELSE b.hash[k]])
    ELSE b

simple_index_diff(b, o) ==
    [i \in {i \in DOMAIN o : i \notin DOMAIN b \/ b[i] # o[i]} |-> o[i]]

simple_index_merge_patch_only(b, d) == d

simple_index_merge_keep_base(b, d) ==
    [i \in DOMAIN b \cup DOMAIN d |-> IF i \in DOMAIN b THEN b[i] ELSE d[i]]

simple_index_merge(b, d) ==
    [i \in DOMAIN b \cup DOMAIN d |-> IF i \in DOMAIN d THEN d[i] ELSE b[i]]

(***************************************************************************)
(* actor/aiprog.rs: the entries of an AI program. An AIEntry has a def, an *)
(* optional params object, children by key (each an AI or an Action) and   *)
(* optional behaviours (parameter lists by key); an ActionEntry has no     *)
(* children.                                                               *)
(***************************************************************************)
OptNone == [none |-> TRUE]

Some(v) == [val |-> v]

IsSome(x) == "val" \in DOMAIN x

IsAI(c) == "ai" \in DOMAIN c

\* The derived PartialEq of the entries; an IndexMap compares as a map.
OptPObjEq(a, b) ==
    IF IsSome(a) /\ IsSome(b) THEN PObjEq(a.val, b.val)
    ELSE IsSome(a) = IsSome(b)

BehaviorsEq(a, b) ==
    /\ Keys(a) = Keys(b)
    /\ \A k \in Keys(a) : PListEq(Get(a, k), Get(b, k))

OptBehaviorsEq(a, b) ==
    IF IsSome(a) /\ IsSome(b) THEN BehaviorsEq(a.val, b.val)
    ELSE IsSome(a) = IsSome(b)

ActionEq(a, b) ==
    /\ PObjEq(a.def, b.def)
    /\ OptPObjEq(a.params, b.params)
    /\ OptBehaviorsEq(a.behaviors, b.behaviors)

RECURSIVE AIEq(_, _)
ChildEq(c, d) ==
    IF IsAI(c) /\ IsAI(d) THEN AIEq(c.ai, d.ai)
    ELSE IF ~IsAI(c) /\ ~IsAI(d) THEN ActionEq(c.action, d.action)
    ELSE FALSE

AIEq(a, b) ==
    /\ PObjEq(a.def, b.def)
    /\ OptPObjEq(a.params, b.params)
    /\ OptBehaviorsEq(a.behaviors, b.behaviors)
    /\ Keys(a.children) = Keys(b.children)
    /\ \A k \in Keys(a.children) : ChildEq(Get(a.children, k), Get(b.children, k))

\* diff.def: self's def, extended with the entries of other's def that
\* self lacks or holds with another value.
DiffDef(sd, od) ==
    IF ~PObjEq(sd, od)
    THEN InsertAll(sd, SelectSeq(od, LAMBDA e : ~HasKey(sd, e[1]) \/ Get(sd, e[1]) # e[2]))
    ELSE sd

DiffParams(sp, op) ==
    IF ~OptPObjEq(sp, op)
    THEN IF IsSome(sp)
         THEN IF IsSome(op) THEN Some(diff_pobj(sp.val, op.val)) ELSE OptNone
         ELSE op
    ELSE OptNone

DiffBehaviors(sb, ob) ==
    IF ~OptBehaviorsEq(sb, ob)
    THEN IF IsSome(sb)
         THEN IF IsSome(ob) THEN Some(Collect(DiffLists(sb.val, ob.val)))
              ELSE OptNone
         ELSE ob
    ELSE OptNone

ActionEntry_diff(s, o) ==
    [def |-> DiffDef(s.def, o.def),
     params |-> DiffParams(s.params, o.params),
     behaviors |-> DiffBehaviors(s.behaviors, o.behaviors)]

RECURSIVE AIEntry_diff(_, _)
RECURSIVE DiffChildren(_, _)
DiffChildren(sc, oc) ==
    IF oc = <<>> THEN <<>>
    ELSE LET k == Head(oc)[1]
             v == Head(oc)[2]
             rest == DiffChildren(sc, Tail(oc))
         IN  IF ~HasKey(sc, k) THEN <<<<k, v>>>> \o rest
             ELSE IF ~ChildEq(Get(sc, k), v)
                  THEN LET c == Get(sc, k)
                       IN  IF IsAI(c) # IsAI(v) THEN <<<<k, v>>>> \o rest
                           ELSE IF IsAI(c)
                                THEN <<<<k, [ai |-> AIEntry_diff(c.ai, v.ai)]>>>> \o rest
                                ELSE <<<<k, [action |-> ActionEntry_diff(c.action, v.action)]>>>>
                                         \o rest
                  ELSE rest

AIEntry_diff(s, o) ==
    [def |-> DiffDef(s.def, o.def),
     params |-> DiffParams(s.params, o.params),
     children |-> Collect(DiffChildren(s.children, o.children)),
     behaviors |-> DiffBehaviors(s.behaviors, o.behaviors)]

MergeParams(bp, dp) ==
    IF IsSome(dp)
    THEN IF IsSome(bp) THEN Some(merge_pobj(bp.val, dp.val)) ELSE dp
    ELSE bp

\* base's behaviours chained with the diff's, collected: the diff's list
\* replaces base's list of the same key.
MergeBehaviors(bb, db) ==
    IF IsSome(db)
    THEN IF IsSome(bb) THEN Some(Collect(bb.val \o db.val)) ELSE db
    ELSE bb

\* new.def = diff.def, whatever the diff is.
ActionEntry_merge(b, d) ==
    [def |-> d.def,
     params |-> MergeParams(b.params, d.params),
     behaviors |-> MergeBehaviors(b.behaviors, d.behaviors)]

\* The loop over the diff's children: a child of another variant or a new
\* child is inserted, an AI child is merged, and the arm of two Actions is
\* empty.
RECURSIVE AIEntry_merge(_, _)
RECURSIVE MergeChildren(_, _, _)
MergeChildren(new, bc, dc) ==
    IF dc = <<>> THEN new
    ELSE LET k == Head(dc)[1]
             v == Head(dc)[2]
         IN  IF HasKey(bc, k)
             THEN LET c == Get(bc, k)
                  IN  IF IsAI(c) # IsAI(v)
                      THEN MergeChildren(Insert(new, k, v), bc, Tail(dc))
                      ELSE IF IsAI(c)
                           THEN MergeChildren(
                                    Insert(new, k, [ai |-> AIEntry_merge(c.ai, v.ai)]),
                                    bc, Tail(dc))
                           ELSE MergeChildren(new, bc, Tail(dc))
             ELSE MergeChildren(Insert(new, k, v), bc, Tail(dc))

AIEntry_merge(b, d) ==
    [def |-> d.def,
     params |-> MergeParams(b.params, d.params),
     children |-> MergeChildren(b.children, b.children, d.children),
     behaviors |-> MergeBehaviors(b.behaviors, d.behaviors)]

(***************************************************************************)
(* The operands the parameter algebra is exercised on.                     *)
(***************************************************************************)
KeySet == 1..MaxKey
ValSet == 1..MaxVal

\* Every injective sequence of keys, each key paired with a value.
KeySeqs == {s \in UNION {[1..n -> KeySet] : n \in 0..MaxKey} :
                \A i, j \in DOMAIN s : i # j => s[i] # s[j]}

PObjs == UNION {{[i \in DOMAIN ks |-> <<ks[i], vs[i]>>] : vs \in [DOMAIN ks -> ValSet]}
                : ks \in KeySeqs}

\* The parameter objects held inside the lists.
LeafObjs == {<<<<1, 1>>>>, <<<<1, 1>>, <<2, 1>>>>, <<<<1, 2>>, <<2, 1>>>>}

ObjMaps == {<<>>} \cup {<<<<1, o>>>> : o \in LeafObjs}

RECURSIVE PLists(_)
PLists(d) ==
    IF d = 0
    THEN {[objects |-> om, lists |-> <<>>] : om \in ObjMaps}
    ELSE LET sub == PLists(d - 1)
         IN  {[objects |-> om, lists |-> lm] :
                 om \in ObjMaps,
                 lm \in {<<>>} \cup {<<<<1, l>>>> : l \in sub}}

PListSet == PLists(MaxDepth)

\* The maps from some of the keys to the values of V.
MapsTo(V) == UNION {[ks -> V] : ks \in SUBSET KeySet}

\* Binary-YAML hashes, whose entries may be Null, and index maps.
BymlHashes == {Hash(h) : h \in MapsTo(ValSet \cup {Null})}

IndexMaps == MapsTo(ValSet)

\* diff and merge of the kind.
DiffOf(kind, b, o) ==
    CASE kind = "pobj" -> diff_pobj(b, o)
      [] kind = "plist" -> diff_plist(b, o)
      [] kind = "byml" -> diff_byml_shallow(b, o)
      [] kind = "index" -> simple_index_diff(b, o)
      [] kind = "ai" -> AIEntry_diff(b, o)
      [] kind = "action" -> ActionEntry_diff(b, o)

MergeOf(kind, b, d) ==
    CASE kind = "pobj" -> merge_pobj(b, d)
      [] kind = "plist" -> merge_plist(b, d)
      [] kind = "byml" -> merge_byml_shallow(b, d)
      [] kind = "index" -> simple_index_merge(b, d)
      [] kind = "ai" -> AIEntry_merge(b, d)
      [] kind = "action" -> ActionEntry_merge(b, d)

None == "none"

\* The orchestrator is not running.
UnpackOff ==
    /\ dump = None /\ mods = <<>> /\ manifest = None /\ cache = None
    /\ jobs = None /\ phase = "off" /\ outFiles = None /\ writes = None
    /\ rstb = None /\ result = None /\ builds = {}

ParamInit ==
    /\ UnpackOff
    /\ \/ pkind = "pobj" /\ base \in PObjs /\ other \in PObjs
       \/ pkind = "plist" /\ base \in PListSet /\ other \in PListSet
       \/ pkind = "byml" /\ base \in BymlHashes
                         /\ other \in BymlHashes \cup {NullDoc}
       \/ pkind = "index" /\ base \in IndexMaps /\ other \in IndexMaps
    /\ patch = None
    /\ merged = None
    /\ ppc = "init"

\* Mergeable::diff on the operands (atcl.rs, lod.rs). The shallow diff of
\* anything but two hashes panics.
Diff ==
    /\ ppc = "init"
    /\ pkind = "byml" => IsHash(other)
    /\ patch' = DiffOf(pkind, base, other)
    /\ ppc' = "diffed"
    /\ UNCHANGED <<pkind, base, other, merged>>
    /\ UNCHANGED uvars

\* Mergeable::merge of the base with the patch.
Merge ==
    /\ ppc = "diffed"
    /\ merged' = MergeOf(pkind, base, patch)
    /\ ppc' = "merged"
    /\ UNCHANGED <<pkind, base, other, patch>>
    /\ UNCHANGED uvars

\* Mergeable::merge of the base with other taken as the patch, as
\* build_file merges a mod's version into the state it has.
MergePatch ==
    /\ ppc = "init"
    /\ patch' = other
    /\ merged' = MergeOf(pkind, base, other)
    /\ ppc' = "applied"
    /\ UNCHANGED <<pkind, base, other>>
    /\ UNCHANGED uvars

ParamNext == Diff \/ Merge \/ MergePatch

SpecParam == ParamInit /\ [][ParamNext]_vars

(***************************************************************************)
(* The AI program entries diff and merge are exercised on.                 *)
(***************************************************************************)
DefSet == {<<>>, <<<<1, 1>>>>, <<<<1, 2>>>>}

OptParamSet == {OptNone, Some(<<<<1, 1>>>>), Some(<<<<1, 2>>>>)}

\* A behaviour list with one object of two parameters, the first being v.
BehaviorList(v) ==
    [objects |-> <<<<1, <<<<1, v>>, <<2, 1>>>>>>>>, lists |-> <<>>]

OptBehaviorSet ==
    {OptNone, Some(<<<<1, BehaviorList(1)>>>>), Some(<<<<1, BehaviorList(2)>>>>)}

ActionEntries ==
    {[def |-> d, params |-> q, behaviors |-> b] :
        d \in DefSet, q \in OptParamSet, b \in OptBehaviorSet}

ChildActions ==
    {[def |-> <<<<1, 1>>>>, params |-> q, behaviors |-> OptNone] :
        q \in {Some(<<<<1, 1>>>>), Some(<<<<1, 2>>>>)}}

ChildAIs ==
    {[def |-> <<<<1, 1>>>>, params |-> q, children |-> <<>>, behaviors |-> OptNone] :
        q \in {Some(<<<<1, 1>>>>), Some(<<<<1, 2>>>>)}}

ChildrenSet ==
    {<<>>} \cup {<<<<1, [action |-> a]>>>> : a \in ChildActions}
           \cup {<<<<1, [ai |-> a]>>>> : a \in ChildAIs}

AIEntries ==
    {[def |-> d, params |-> q, children |-> c, behaviors |-> b] :
        d \in DefSet, q \in OptParamSet, c \in ChildrenSet, b \in OptBehaviorSet}

\* AIEntry::default() and ActionEntry::default().
AIEntry_default ==
    [def |-> <<>>, params |-> OptNone, children |-> <<>>, behaviors |-> OptNone]

ActionEntry_default == [def |-> <<>>, params |-> OptNone, behaviors |-> OptNone]

AIInit ==
    /\ UnpackOff
    /\ \/ pkind = "ai" /\ base \in AIEntries /\ other \in AIEntries
       \/ pkind = "action" /\ base \in ActionEntries /\ other \in ActionEntries
    /\ patch = None
    /\ merged = None
    /\ ppc = "init"

SpecAI == AIInit /\ [][ParamNext]_vars

(***************************************************************************)
(* actor/aiprog.rs: an AI program and its parameter archive. A program     *)
(* holds demos (actions by key), a tree (root AIs by class name) and       *)
(* queries (parameter lists by class name). The archive holds the lists    *)
(* AI, Action, Behavior and Query, each a sequence in insertion order, and *)
(* the object DemoAIActionIdx; an entry refers to a child or a behaviour   *)
(* by its position, counted from 0, actions behind the AIs.                *)
(***************************************************************************)
ParamStr(s) == [str |-> s]

ParamInt(n) == [int |-> n]

IsStr(p) == "str" \in DOMAIN p

Ok(v) == [ok |-> v]

Err(m) == [err |-> m]

IsOk(r) == "ok" \in DOMAIN r

\* Iterator::nth on the values of a list.
Nth(q, idx) ==
    IF idx >= 0 /\ idx + 1 \in DOMAIN q THEN Some(q[idx + 1]) ELSE OptNone

\* collect::<Result<IndexMap<_, _>>>() over <<key, result>> pairs: the
\* first error, or the map of the values.
CollectOk(rs) ==
    LET bad == {i \in DOMAIN rs : ~IsOk(rs[i][2])}
    IN  IF bad # {}
        THEN rs[CHOOSE i \in bad : \A j \in bad : i <= j][2]
        ELSE Ok(Collect([i \in DOMAIN rs |-> <<rs[i][1], rs[i][2].ok>>]))

\* full_name: the string values of def, joined in def's order.
RECURSIVE JoinStrings(_)
JoinStrings(ps) ==
    IF ps = <<>> THEN ""
    ELSE (IF IsStr(Head(ps)[2]) THEN Head(ps)[2].str ELSE "")
             \o JoinStrings(Tail(ps))

full_name(entry) == JoinStrings(entry.def)

RECURSIVE count_ais(_)
RECURSIVE CountChildren(_)
count_ais(ai) == 1 + CountChildren(ai.children)

CountChildren(cs) ==
    IF cs = <<>> THEN 0
    ELSE (IF IsAI(Head(cs)[2]) THEN count_ais(Head(cs)[2].ai) ELSE 0)
             + CountChildren(Tail(cs))

RECURSIVE CountRoots(_)
CountRoots(tree) ==
    IF tree = <<>> THEN 0
    ELSE count_ais(Head(tree)[2]) + CountRoots(Tail(tree))

ParameterList_new ==
    [Def |-> OptNone, SInst |-> OptNone, ChildIdx |-> OptNone,
     BehaviorIdx |-> OptNone]

ParameterIOBuilder_new(aiprog) ==
    [action_offset |-> CountRoots(aiprog.tree),
     ais |-> <<>>, done_ais |-> <<>>,
     actions |-> <<>>, done_actions |-> <<>>,
     behaviors |-> <<>>]

\* F at the value of v, which is computed once.
With(v, F(_)) == CHOOSE r \in {F(x) : x \in {v}} : TRUE

\* The BehaviorIdx object of an entry: each behaviour's position in
\* self.behaviors, the behaviour being pushed when no equal one is there.
BehaviorIndex(st, kb, acc) ==
    LET found == {i \in DOMAIN st.behaviors : PListEq(st.behaviors[i], kb[2])}
    IN  IF found # {}
        THEN [st |-> st,
              obj |-> Insert(acc, kb[1],
                             (CHOOSE i \in found : \A j \in found : i <= j) - 1)]
        ELSE [st |-> [st EXCEPT !.behaviors = Append(@, kb[2])],
              obj |-> Insert(acc, kb[1], Len(st.behaviors))]

RECURSIVE BehaviorIndexes(_, _, _)
BehaviorIndexes(st, bs, acc) ==
    IF bs = <<>> THEN [st |-> st, obj |-> acc]
    ELSE With(BehaviorIndex(st, Head(bs), acc),
              LAMBDA r : BehaviorIndexes(r.st, Tail(bs), r.obj))

EntryBehaviors(st, behaviors) ==
    IF IsSome(behaviors)
    THEN With(BehaviorIndexes(st, behaviors.val, <<>>),
              LAMBDA r : [st |-> r.st, obj |-> Some(r.obj)])
    ELSE [st |-> st, obj |-> OptNone]

\* ParameterIOBuilder::action_to_plist: the position of the action in
\* self.actions; an action whose full name was written before is not
\* written again.
action_to_plist(st, action) ==
    IF HasKey(st.done_actions, full_name(action))
    THEN [st |-> st, idx |-> Get(st.done_actions, full_name(action))]
    ELSE With(EntryBehaviors(st, action.behaviors),
              LAMBDA bh :
                  [st |-> [bh.st EXCEPT
                              !.done_actions =
                                  Insert(@, full_name(action), Len(bh.st.actions)),
                              !.actions =
                                  Append(@, [Def |-> Some(action.def),
                                             SInst |-> action.params,
                                             ChildIdx |-> OptNone,
                                             BehaviorIdx |-> bh.obj])],
                   idx |-> Len(bh.st.actions)])

\* ParameterIOBuilder::ai_to_plist: the position of the AI in self.ais. The
\* place is taken before the children are written and the name is recorded
\* after them.
RECURSIVE ai_to_plist(_, _)
RECURSIVE ChildIndexes(_, _, _)
ai_to_plist(st, ai) ==
    IF HasKey(st.done_ais, full_name(ai))
    THEN [st |-> st, idx |-> Get(st.done_ais, full_name(ai))]
    ELSE With(IF ai.children # <<>>
              THEN With(ChildIndexes([st EXCEPT !.ais = Append(@, ParameterList_new)],
                                     ai.children, <<>>),
                        LAMBDA r : [st |-> r.st, obj |-> Some(r.obj)])
              ELSE [st |-> [st EXCEPT !.ais = Append(@, ParameterList_new)],
                    obj |-> OptNone],
              LAMBDA ch :
                  With(EntryBehaviors(ch.st, ai.behaviors),
                       LAMBDA bh :
                           [st |-> [bh.st EXCEPT
                                       !.done_ais =
                                           Insert(@, full_name(ai), Len(st.ais)),
                                       !.ais[Len(st.ais) + 1] =
                                           [Def |-> Some(ai.def),
                                            SInst |-> ai.params,
                                            ChildIdx |-> ch.obj,
                                            BehaviorIdx |-> bh.obj]],
                            idx |-> Len(st.ais)]))

ChildIndexes(st, cs, acc) ==
    IF cs = <<>> THEN [st |-> st, obj |-> acc]
    ELSE With(IF IsAI(Head(cs)[2]) THEN ai_to_plist(st, Head(cs)[2].ai)
              ELSE With(action_to_plist(st, Head(cs)[2].action),
                        LAMBDA a : [st |-> a.st,
                                    idx |-> a.idx + st.action_offset]),
              LAMBDA r :
                  With(Insert(acc, Head(cs)[1], r.idx),
                       LAMBDA obj : ChildIndexes(r.st, Tail(cs), obj)))

RECURSIVE BuildRoots(_, _)
BuildRoots(st, roots) ==
    IF roots = <<>> THEN st
    ELSE With(ai_to_plist(st, Head(roots)[2]),
              LAMBDA r : BuildRoots(r.st, Tail(roots)))

RECURSIVE BuildDemos(_, _, _)
BuildDemos(st, demos, acc) ==
    IF demos = <<>> THEN [st |-> st, obj |-> acc]
    ELSE With(action_to_plist(st, Head(demos)[2]),
              LAMBDA r :
                  With(Insert(acc, Head(demos)[1], r.idx + st.action_offset),
                       LAMBDA obj : BuildDemos(r.st, Tail(demos), obj)))

\* ParameterIOBuilder::build, which AIProgram::into_pio runs.
into_pio(aiprog) ==
    With(BuildRoots(ParameterIOBuilder_new(aiprog), aiprog.tree),
         LAMBDA st :
             With(BuildDemos(st, aiprog.demos, <<>>),
                  LAMBDA d :
                      [DemoAIActionIdx |-> d.obj,
                       AI |-> d.st.ais,
                       Action |-> d.st.actions,
                       Behavior |-> d.st.behaviors,
                       Query |-> [i \in DOMAIN aiprog.queries |->
                                     aiprog.queries[i][2]]]))

\* The behaviors field both plist_to_ai and plist_to_action read.
plist_behaviors(plist, pio) ==
    IF IsSome(plist.BehaviorIdx)
    THEN LET bi == plist.BehaviorIdx.val
             r == CollectOk([i \in DOMAIN bi |->
                      <<bi[i][1],
                        LET n == Nth(pio.Behavior, bi[i][2])
                        IN  IF IsSome(n) THEN Ok(n.val)
                            ELSE Err("AI program missing behavior")>>])
         IN  IF IsOk(r) THEN Ok(Some(r.ok)) ELSE r
    ELSE Ok(OptNone)

plist_to_action(plist, pio) ==
    IF ~IsSome(plist.Def) THEN Err("Action entry missing Def object")
    ELSE LET bs == plist_behaviors(plist, pio)
         IN  IF ~IsOk(bs) THEN bs
             ELSE Ok([def |-> plist.Def.val, params |-> plist.SInst,
                      behaviors |-> bs.ok])

RECURSIVE plist_to_ai(_, _, _)
plist_to_ai(plist, pio, action_offset) ==
    IF ~IsSome(plist.Def) THEN Err("AI entry missing Def object")
    ELSE IF ~IsSome(plist.ChildIdx) THEN Err("AI entry missing ChildIdx object")
    ELSE LET ci == plist.ChildIdx.val
             child(idx) ==
                 IF idx < action_offset
                 THEN LET n == Nth(pio.AI, idx)
                      IN  IF ~IsSome(n) THEN Err("AI program missing entry")
                          ELSE LET r == plist_to_ai(n.val, pio, action_offset)
                               IN  IF IsOk(r) THEN Ok([ai |-> r.ok]) ELSE r
                 ELSE LET n == Nth(pio.Action, idx - action_offset)
                      IN  IF ~IsSome(n) THEN Err("AI program missing entry")
                          ELSE LET r == plist_to_action(n.val, pio)
                               IN  IF IsOk(r) THEN Ok([action |-> r.ok]) ELSE r
             cs == CollectOk([i \in DOMAIN ci |-> <<ci[i][1], child(ci[i][2])>>])
             bs == plist_behaviors(plist, pio)
         IN  IF ~IsOk(cs) THEN cs
             ELSE IF ~IsOk(bs) THEN bs
             ELSE Ok([def |-> plist.Def.val, params |-> plist.SInst,
                      children |-> cs.ok, behaviors |-> bs.ok])

\* def.param("ClassName")?.as_string()?, the key of a root and of a query.
ClassName(def) ==
    IF ~HasKey(def, "ClassName") THEN Err("AI def missing ClassName")
    ELSE IF ~IsStr(Get(def, "ClassName")) THEN Err("not a string")
    ELSE Ok(Get(def, "ClassName").str)

\* impl TryFrom<&ParameterIO> for AIProgram. The roots are the AIs no
\* ChildIdx object refers to; action_offset is the length of the AI list.
AIProgram_try_from(pio) ==
    LET child_indexes ==
            UNION {{pio.AI[i].ChildIdx.val[j][2] : j \in DOMAIN pio.AI[i].ChildIdx.val} :
                       i \in {i \in DOMAIN pio.AI : IsSome(pio.AI[i].ChildIdx)}}
        roots == SelectSeq([i \in DOMAIN pio.AI |-> i],
                           LAMBDA i : (i - 1) \notin child_indexes)
        action_offset == Len(pio.AI)
        tree == CollectOk([i \in DOMAIN roots |->
                    LET root == pio.AI[roots[i]]
                        name == IF IsSome(root.Def) THEN ClassName(root.Def.val)
                                ELSE Err("AI entry missing Def object")
                    IN  IF ~IsOk(name) THEN <<"", name>>
                        ELSE <<name.ok, plist_to_ai(root, pio, action_offset)>>])
        dm == pio.DemoAIActionIdx
        demos == CollectOk([i \in DOMAIN dm |->
                    <<dm[i][1],
                      LET n == Nth(pio.Action, dm[i][2] - action_offset)
                      IN  IF IsSome(n) THEN plist_to_action(n.val, pio)
                          ELSE Err("AI program missing entry")>>])
        queries == CollectOk([i \in DOMAIN pio.Query |->
                    LET query == pio.Query[i]
                        name == IF HasKey(query.objects, "Def")
                                THEN ClassName(Get(query.objects, "Def"))
                                ELSE Err("Query missing Def object")
                    IN  IF ~IsOk(name) THEN <<"", name>>
                        ELSE <<name.ok, Ok(query)>>])
    IN  IF ~IsOk(tree) THEN tree
        ELSE IF ~IsOk(demos) THEN demos
        ELSE IF ~IsOk(queries) THEN queries
        ELSE Ok([demos |-> demos.ok, tree |-> tree.ok, queries |-> queries.ok])

\* The derived PartialEq of AIProgram.
AIProgramEq(x, y) ==
    /\ Keys(x.demos) = Keys(y.demos)
    /\ \A k \in Keys(x.demos) : ActionEq(Get(x.demos, k), Get(y.demos, k))
    /\ Keys(x.tree) = Keys(y.tree)
    /\ \A k \in Keys(x.tree) : AIEq(Get(x.tree, k), Get(y.tree, k))
    /\ Keys(x.queries) = Keys(y.queries)
    /\ \A k \in Keys(x.queries) : PListEq(Get(x.queries, k), Get(y.queries, k))

(***************************************************************************)
(* The AI programs the archive is written from: the roots and the queries  *)
(* are keyed by their class names, as the parser keys them.                *)
(***************************************************************************)
SerDef(c) == <<<<"ClassName", ParamStr(c)>>, <<"Priority", ParamInt(1)>>>>

SerAction(c, q) == [def |-> SerDef(c), params |-> q, behaviors |-> OptNone]

SerActions ==
    {SerAction(c, q) : c \in {"A", "B"},
                       q \in {Some(<<<<1, 1>>>>), Some(<<<<1, 2>>>>)}}
    \cup {[def |-> SerDef("A"), params |-> OptNone,
           behaviors |-> Some(<<<<1, BehaviorList(1)>>>>)]}

SerDemos ==
    {<<>>} \cup {<<<<1, a>>>> : a \in SerActions}
           \cup {<<<<1, a>>, <<2, b>>>> : a, b \in SerActions}

SerAI(c, q, children) ==
    [def |-> SerDef(c), params |-> q, children |-> children,
     behaviors |-> OptNone]

SerLeaf(c, q) ==
    SerAI(c, q, <<<<1, [action |-> SerAction("A", Some(<<<<1, 1>>>>))]>>>>)

SerTrees ==
    {<<>>,
     \* one root with an action
     <<<<"R", SerLeaf("R", OptNone)>>>>,
     <<<<"R", SerAI("R", OptNone,
                    <<<<1, [action |-> SerAction("B", Some(<<<<1, 2>>>>))]>>>>)>>>>,
     \* a root without children
     <<<<"R", SerAI("R", OptNone, <<>>)>>>>,
     \* two roots, the second with behaviours
     <<<<"R", SerLeaf("R", OptNone)>>,
       <<"S", [SerLeaf("S", OptNone) EXCEPT
                  !.behaviors = Some(<<<<1, BehaviorList(1)>>,
                                      <<2, BehaviorList(2)>>>>)]>>>>,
     \* two children that are different AIs of one name
     <<<<"R", SerAI("R", OptNone,
                    <<<<1, [ai |-> SerLeaf("C", Some(<<<<1, 1>>>>))]>>,
                      <<2, [ai |-> SerLeaf("C", Some(<<<<1, 2>>>>))]>>>>)>>>>,
     \* two children that are the same AI
     <<<<"R", SerAI("R", OptNone,
                    <<<<1, [ai |-> SerLeaf("C", OptNone)]>>,
                      <<2, [ai |-> SerLeaf("C", OptNone)]>>,
                      <<3, [action |-> SerAction("B", Some(<<<<1, 1>>>>))]>>>>)>>>>,
     \* a child named as its parent
     <<<<"R", SerAI("R", OptNone,
                    <<<<1, [ai |-> SerLeaf("R", Some(<<<<1, 1>>>>))]>>>>)>>>>}

QueryList(c) ==
    [objects |-> <<<<"Def", <<<<"ClassName", ParamStr(c)>>>>>>>>, lists |-> <<>>]

SerQueries == {<<>>, <<<<"Q", QueryList("Q")>>>>}

AIPrograms ==
    {[demos |-> d, tree |-> t, queries |-> q] :
        d \in SerDemos, t \in SerTrees, q \in SerQueries}

SerdeInit ==
    /\ UnpackOff
    /\ pkind = "aiprog"
    /\ base \in AIPrograms
    /\ other = None
    /\ patch = None
    /\ merged = None
    /\ ppc = "init"

\* aiprog.into_pio().
IntoPio ==
    /\ ppc = "init"
    /\ patch' = into_pio(base)
    /\ ppc' = "written"
    /\ UNCHANGED <<pkind, base, other, merged>>
    /\ UNCHANGED uvars

\* AIProgram::try_from(&pio).
TryFromPio ==
    /\ ppc = "written"
    /\ merged' = AIProgram_try_from(patch)
    /\ ppc' = "parsed"
    /\ UNCHANGED <<pkind, base, other, patch>>
    /\ UNCHANGED uvars

SpecSerde == SerdeInit /\ [][IntoPio \/ TryFromPio]_vars

(***************************************************************************)
(* The fold of merge over a sequence of patches, as build_file's Mergeable *)
(* arm runs it over the versions of the mods.                              *)
(***************************************************************************)
MaxPatches == 2

\* The parameter objects whose keys are in ascending order.
SortedPObjs ==
    {o \in PObjs : \A i, j \in DOMAIN o : i < j => o[i][1] < o[j][1]}

\* The parameter lists with one level of child lists.
FoldLists == PLists(1)

FoldOperands(kind) == IF kind = "pobj" THEN SortedPObjs ELSE FoldLists

FoldInit ==
    /\ UnpackOff
    /\ pkind \in {"pobj", "plist"}
    /\ base \in FoldOperands(pkind)
    /\ merged = base
    /\ patch = None
    /\ other = 0
    /\ ppc = "fold"

\* One step of the fold: res = res.merge(version).
FoldStep ==
    /\ ppc = "fold"
    /\ other < MaxPatches
    /\ \E p \in FoldOperands(pkind) : merged' = MergeOf(pkind, merged, p)
    /\ other' = other + 1
    /\ UNCHANGED <<pkind, base, patch, ppc>>
    /\ UNCHANGED uvars

SpecFold == FoldInit /\ [][FoldStep]_vars

(***************************************************************************)
(* Two diffs taken between three successive versions x, y, z and merged in *)
(* turn into x. base holds x and other holds <<y, z>>.                     *)
(***************************************************************************)
ComposeInit ==
    /\ UnpackOff
    /\ pkind \in {"pobj", "plist"}
    /\ base \in FoldOperands(pkind)
    /\ other \in FoldOperands(pkind) \X FoldOperands(pkind)
    /\ patch = None
    /\ merged = None
    /\ ppc = "init"

\* x.diff(y) and y.diff(z).
DiffBoth ==
    /\ ppc = "init"
    /\ patch' = <<DiffOf(pkind, base, other[1]), DiffOf(pkind, other[1], other[2])>>
    /\ ppc' = "diffed"
    /\ UNCHANGED <<pkind, base, other, merged>>
    /\ UNCHANGED uvars

\* x.merge(first diff).merge(second diff).
MergeBoth ==
    /\ ppc = "diffed"
    /\ merged' = MergeOf(pkind, MergeOf(pkind, base, patch[1]), patch[2])
    /\ ppc' = "composed"
    /\ UNCHANGED <<pkind, base, other, patch>>
    /\ UNCHANGED uvars

SpecCompose == ComposeInit /\ [][DiffBoth \/ MergeBoth]_vars

(***************************************************************************)
(* util/mod.rs: BymlHashValue, a hash or an actor id held as an unsigned   *)
(* word and written to binary YAML as a signed or an unsigned integer. The *)
(* word is WordBits wide here (32 in the code); HighBit is the code's      *)
(* 0x80000000.                                                             *)
(***************************************************************************)
WordBits == 8

HighBit == 2 ^ (WordBits - 1)

Modulus == 2 ^ WordBits

Words == 0..(Modulus - 1)

\* i32::from_le_bytes(v.to_le_bytes()) and u32::from_le_bytes(v.to_le_bytes()):
\* the same bits read as the other type.
AsSigned(u) == IF u >= HighBit THEN u - Modulus ELSE u

AsUnsigned(i) == i % Modulus

BymlHashValue_into_byml_above(v) ==
    IF v > HighBit THEN [U32 |-> v] ELSE [I32 |-> AsSigned(v)]

\* impl From<BymlHashValue> for Byml.
BymlHashValue_into_byml(v) ==
    IF v >= HighBit THEN [U32 |-> v] ELSE [I32 |-> AsSigned(v)]

\* impl TryFrom<Byml> for BymlHashValue.
BymlHashValue_try_from(b) ==
    IF "U32" \in DOMAIN b THEN [ok |-> b.U32]
    ELSE IF "I32" \in DOMAIN b THEN [ok |-> AsUnsigned(b.I32)]
    ELSE [err |-> "WrongBymlType"]

HashInit ==
    /\ UnpackOff
    /\ pkind = "hashvalue"
    /\ base \in Words
    /\ other = None
    /\ patch = None
    /\ merged = None
    /\ ppc = "init"

\* Byml::from(value).
IntoByml ==
    /\ ppc = "init"
    /\ patch' = BymlHashValue_into_byml(base)
    /\ ppc' = "emitted"
    /\ UNCHANGED <<pkind, base, other, merged>>
    /\ UNCHANGED uvars

\* BymlHashValue::try_from(byml).
TryFromByml ==
    /\ ppc = "emitted"
    /\ merged' = BymlHashValue_try_from(patch)
    /\ ppc' = "parsed"
    /\ UNCHANGED <<pkind, base, other, patch>>
    /\ UNCHANGED uvars

SpecHash == HashInit /\ [][IntoByml \/ TryFromByml]_vars

(***************************************************************************)
(* Two independent patches b and c, both diffed against the base a and     *)
(* merged in turn into a. base holds a and other holds <<b, c>>.           *)
(***************************************************************************)
OrderInit ==
    /\ UnpackOff
    /\ pkind = "pobj"
    /\ base \in SortedPObjs
    /\ other \in SortedPObjs \X SortedPObjs
    /\ patch = None
    /\ merged = None
    /\ ppc = "init"

\* a.diff(b) and a.diff(c).
DiffFromBase ==
    /\ ppc = "init"
    /\ patch' = <<DiffOf(pkind, base, other[1]), DiffOf(pkind, base, other[2])>>
    /\ ppc' = "diffed"
    /\ UNCHANGED <<pkind, base, other, merged>>
    /\ UNCHANGED uvars

SpecOrder == OrderInit /\ [][DiffFromBase \/ MergeBoth]_vars

(***************************************************************************)
(* The merge orchestrator (uk-mod/src/unpack.rs): resources and inputs.    *)
(***************************************************************************)
MaxMods == 2

\* Canonical paths. "B" is a loose binary file, "X" a packed container,
\* "Y" a mergeable file and "Z" a binary file found only inside "X", and
\* "W" a binary file no dump holds.
Paths == {"B", "W", "X", "Y", "Z"}

\* The paths in the order of a BTreeSet<String>.
PathOrder == <<"B", "W", "X", "Y", "Z">>

Roots == {"content", "aoc"}

JobIds == Roots \X Paths

\* ResourceData: the arm a path parses to is decided by its suffix.
Kind(p) ==
    CASE p = "X" -> "Sarc"
      [] p = "Y" -> "Mergeable"
      [] OTHER   -> "Binary"

Bin(b) == [kind |-> "Binary", data |-> b]

Mrg(v) == [kind |-> "Mergeable", val |-> v]

Sarc(fs) == [kind |-> "Sarc", files |-> fs]

NoRes == [kind |-> "None"]

\* What a package holds at one location: nothing, an entry that cannot be
\* read, a payload zstd cannot decode, a payload that does not deserialise,
\* or a serialised resource.
Absent == [kind |-> "absent"]

ReadErr == [kind |-> "readerr"]

Corrupt == [kind |-> "corrupt"]

Garbled == [kind |-> "garbled"]

Files(f) == [p \in Paths |-> IF p \in DOMAIN f THEN f[p] ELSE Absent]

\* The dump's content: the parsed resource of each file it holds, loose or
\* inside the container, and the children a parse of the container yields.
DumpRes(p) ==
    CASE p = "B" -> Bin("b0")
      [] p = "X" -> Sarc({"Y", "Z"})
      [] p = "Y" -> Mrg(<<<<1, 5>>, <<2, 6>>>>)
      [] p = "Z" -> Bin("z0")
      [] OTHER   -> NoRes

DumpChildren(p) == IF p = "X" THEN {"Y", "Z"} ELSE {}

\* The state of the loose files of a dump: "ok", "absent" or "ioerr".
Loose(b, x) ==
    [p \in Paths |-> CASE p = "B" -> b [] p = "X" -> x [] OTHER -> "absent"]

DumpSet ==
    {Loose("ok", "ok"), Loose("absent", "ok"), Loose("ioerr", "ok"),
     Loose("ok", "absent")}

\* The mod packages the readers are opened on.
ModA ==
    [name |-> "A", zip |-> TRUE, content_files |-> {"B", "X"}, aoc_files |-> {},
     files |-> Files("X" :> Sarc({"Y"}) @@ "Y" :> Mrg(<<<<1, 7>>>>)
                     @@ "B" :> Bin("bA")),
     options |-> <<>>]

ModB ==
    [name |-> "B", zip |-> TRUE, content_files |-> {"B", "X"},
     aoc_files |-> {"B"},
     files |-> Files("X" :> Sarc({"W", "Y"})
                     @@ "Y" :> Mrg(<<<<3, 4>>, <<1, 9>>>>)
                     @@ "W" :> Bin("wB") @@ "B" :> Bin("bB")),
     options |-> <<>>]

\* An unpacked mod whose file comes from its options.
ModC ==
    [name |-> "C", zip |-> FALSE, content_files |-> {"B"}, aoc_files |-> {"B"},
     files |-> Files(<<>>),
     options |-> <<Files("B" :> Bin("bC1")), Files("B" :> Bin("bC2"))>>]

\* A mod whose payload zstd cannot decode.
ModBad ==
    [name |-> "Bad", zip |-> TRUE, content_files |-> {"B"}, aoc_files |-> {},
     files |-> Files("B" :> Corrupt), options |-> <<>>]

\* A mod whose payload decodes but does not deserialise.
ModGarbled ==
    [name |-> "Garbled", zip |-> TRUE, content_files |-> {"B", "X"},
     aoc_files |-> {},
     files |-> Files("Y" :> Garbled), options |-> <<>>]

\* A mod whose manifest names a file the dump holds only inside "X".
ModNested ==
    [name |-> "Nested", zip |-> TRUE, content_files |-> {"Y"}, aoc_files |-> {},
     files |-> Files("Y" :> Mrg(<<<<2, 8>>>>)), options |-> <<>>]

ModCatalogue == {ModA, ModB, ModC, ModBad, ModGarbled, ModNested}

\* The mod lists: up to MaxMods different mods in any order.
ModLists ==
    {ms \in UNION {[1..n -> ModCatalogue] : n \in 0..MaxMods} :
        \A i, j \in DOMAIN ms : i # j => ms[i] # ms[j]}

NoManifest == [some |-> FALSE, content_files |-> {}, aoc_files |-> {}]

ManifestSet ==
    {NoManifest,
     [some |-> TRUE, content_files |-> {"B"}, aoc_files |-> {}],
     [some |-> TRUE, content_files |-> {"X", "Y"}, aoc_files |-> {"B"}]}

(***************************************************************************)
(* ModReader::get_data (unpack.rs).                                        *)
(***************************************************************************)
\* One location of the package. In an archive: zip.get_file, whose failure
\* counts as a miss, then zstd::decode_all. In a directory: path.exists(),
\* then fs::read.
ReadEntry(zip, e) ==
    IF zip
    THEN IF e.kind \in {"absent", "readerr"}
         THEN [hit |-> FALSE, ok |-> FALSE, data |-> e]
         ELSE [hit |-> TRUE, ok |-> e.kind # "corrupt", data |-> e]
    ELSE IF e.kind = "absent"
         THEN [hit |-> FALSE, ok |-> FALSE, data |-> e]
         ELSE [hit |-> TRUE, ok |-> e.kind # "readerr", data |-> e]

RECURSIVE SearchOptions(_, _, _)
SearchOptions(zip, opts, p) ==
    IF opts = <<>> THEN [ok |-> FALSE, data |-> Absent]
    ELSE LET r == ReadEntry(zip, Head(opts)[p])
         IN  IF r.hit THEN [ok |-> r.ok, data |-> r.data]
             ELSE SearchOptions(zip, Tail(opts), p)

\* The mod root first, then every active option in order; the first
\* location that is there decides.
get_data(m, p) ==
    LET r == ReadEntry(m.zip, m.files[p])
    IN  IF r.hit THEN [ok |-> r.ok, data |-> r.data]
        ELSE SearchOptions(m.zip, m.options, p)

\* get_aoc_file_data: the same search under the add-on prefix.
get_aoc_file_data(m, p) == get_data(m, "Aoc/0010/" \o p)

(***************************************************************************)
(* The lookup on its own: a package with one file, kept at the root and in *)
(* up to MaxOpts active options, each of the locations being absent,       *)
(* unreadable, not valid zstd or a payload named after its location. The   *)
(* other canonical path of the package holds a payload of its own.         *)
(***************************************************************************)
MaxOpts == 2

LookupPaths == {"B", "Aoc/0010/B"}

LookupKinds == {"absent", "readerr", "corrupt", "payload"}

At(kind, where) ==
    CASE kind = "absent"  -> Absent
      [] kind = "readerr" -> ReadErr
      [] kind = "corrupt" -> Corrupt
      [] OTHER            -> Bin(where)

\* One location: the file under canon, another payload under the other path.
Location(canon, kind, where) ==
    [q \in LookupPaths |-> IF q = canon THEN At(kind, where) ELSE Bin("elsewhere")]

LookupMods(canon) ==
    {[zip |-> z,
      files |-> Location(canon, k, 0),
      options |-> [i \in DOMAIN ks |-> Location(canon, ks[i], i)]] :
        z \in BOOLEAN, k \in LookupKinds,
        ks \in UNION {[1..n -> LookupKinds] : n \in 0..MaxOpts}}

LookupInit ==
    /\ UnpackOff
    /\ pkind \in {"content", "aoc"}
    /\ other = "B"
    /\ base \in LookupMods(IF pkind = "aoc" THEN "Aoc/0010/B" ELSE "B")
    /\ patch = None
    /\ merged = None
    /\ ppc = "init"

\* mod.get_data(name) or mod.get_aoc_file_data(name).
Lookup ==
    /\ ppc = "init"
    /\ merged' = IF pkind = "aoc" THEN get_aoc_file_data(base, other)
                 ELSE get_data(base, other)
    /\ ppc' = "looked"
    /\ UNCHANGED <<pkind, base, other, patch>>
    /\ UNCHANGED uvars

SpecLookup == LookupInit /\ [][Lookup]_vars

(***************************************************************************)
(* ModReader::open_unzipped and from_archive: the reader's manifest, and   *)
(* file_exists on it. A package holds meta.toml, manifest.yml and one      *)
(* manifest per option; a manifest file is missing, longer than the buffer *)
(* from_archive reads it into ("oversize"), or there with its two sets.    *)
(***************************************************************************)
ManifestFile(c, a) == [file |-> "ok", content_files |-> c, aoc_files |-> a]

MissingFile == [file |-> "missing", content_files |-> {}, aoc_files |-> {}]

OversizeFile(c, a) == [file |-> "oversize", content_files |-> c, aoc_files |-> a]

\* Reading one manifest file: a directory reads it whole, an archive fails
\* when the read does not fill the entry's size.
ReadManifest(zip, f) ==
    IF f.file = "missing" \/ (zip /\ f.file = "oversize") THEN [ok |-> FALSE]
    ELSE [ok |-> TRUE, content_files |-> f.content_files,
          aoc_files |-> f.aoc_files]

extend_manifest_content_only(m, o) ==
    [m EXCEPT !.content_files = @ \cup o.content_files]

\* manifest.content_files.extend(..); manifest.aoc_files.extend(..).
extend_manifest(m, o) ==
    [m EXCEPT !.content_files = @ \cup o.content_files,
              !.aoc_files = @ \cup o.aoc_files]

RECURSIVE ExtendAll(_, _, _, _)
ExtendAll(zip, pkg, opts, m) ==
    IF opts = <<>> THEN m
    ELSE LET o == ReadManifest(zip, pkg.option_manifests[Head(opts)])
         IN  IF ~o.ok THEN [ok |-> FALSE]
             ELSE ExtendAll(zip, pkg, Tail(opts), extend_manifest(m, o))

\* open_unzipped / from_archive: meta, the base manifest, then the manifest
\* of every option handed in, in order; the first failure is returned.
open(pkg, opts) ==
    IF ~pkg.meta THEN [ok |-> FALSE]
    ELSE LET m == ReadManifest(pkg.zip, pkg.manifest)
         IN  IF ~m.ok THEN [ok |-> FALSE]
             ELSE LET r == ExtendAll(pkg.zip, pkg, opts, m)
                  IN  IF ~r.ok THEN [ok |-> FALSE]
                      ELSE [ok |-> TRUE, options |-> opts,
                            manifest |-> [content_files |-> r.content_files,
                                          aoc_files |-> r.aoc_files]]

file_exists(reader, name) ==
    \/ name \in reader.manifest.content_files
    \/ name \in reader.manifest.aoc_files

OptionNames == 1..MaxOpts

ManifestFiles ==
    {MissingFile, OversizeFile({"X"}, {}), ManifestFile({"X"}, {}),
     ManifestFile({}, {"B"}), ManifestFile({"B"}, {"X"})}

BaseManifests ==
    {MissingFile, ManifestFile({}, {}), ManifestFile({"B"}, {}),
     ManifestFile({"B"}, {"W"}), OversizeFile({"B"}, {})}

Packages ==
    {[zip |-> z, meta |-> mt, manifest |-> m, option_manifests |-> os] :
        z \in BOOLEAN, mt \in BOOLEAN, m \in BaseManifests,
        os \in [OptionNames -> ManifestFiles]}

\* The active options: some of the package's options, in any order.
ActiveOptions ==
    {os \in UNION {[1..n -> OptionNames] : n \in 0..MaxOpts} :
        \A i, j \in DOMAIN os : i # j => os[i] # os[j]}

OpenInit ==
    /\ UnpackOff
    /\ pkind = "open"
    /\ base \in Packages
    /\ other \in ActiveOptions
    /\ patch = None
    /\ merged = None
    /\ ppc = "init"

\* ModReader::open(path, options).
Open ==
    /\ ppc = "init"
    /\ patch' = open(base, other)
    /\ ppc' = IF patch'.ok THEN "opened" ELSE "failed"
    /\ UNCHANGED <<pkind, base, other, merged>>
    /\ UNCHANGED uvars

\* reader.file_exists(name).
FileExists(name) ==
    /\ ppc = "opened"
    /\ merged' = [name |-> name, exists |-> file_exists(patch, name)]
    /\ ppc' = "asked"
    /\ UNCHANGED <<pkind, base, other, patch>>
    /\ UNCHANGED uvars

SpecOpen == OpenInit /\ [][Open \/ \E name \in Paths : FileExists(name)]_vars

(***************************************************************************)
(* The dump reader (uk-reader/src/lib.rs).                                 *)
(***************************************************************************)
\* get_file: cache.try_get_with(canon, read and parse). A value that is
\* cached is returned; otherwise the loose file is read and parsed and, on
\* success, cached. The children the parse met are handed back to the
\* caller, which inserts them afterwards.
get_file(c, d, p) ==
    IF c[p].kind # "None"
    THEN [ok |-> TRUE, res |-> c[p], cache |-> c, processed |-> {}]
    ELSE IF d[p] = "ok"
         THEN [ok |-> TRUE, res |-> DumpRes(p),
               cache |-> [c EXCEPT ![p] = DumpRes(p)],
               processed |-> DumpChildren(p)]
         ELSE [ok |-> FALSE, res |-> NoRes, cache |-> c, processed |-> {}]

\* The loop after try_get_with: cache.insert of every processed child.
insert_processed(c, children) ==
    [p \in Paths |-> IF p \in children THEN DumpRes(p) ELSE c[p]]

\* get_resource: the cache alone.
get_resource(c, p) ==
    IF c[p].kind # "None" THEN [ok |-> TRUE, res |-> c[p]]
    ELSE [ok |-> FALSE, res |-> NoRes]

(***************************************************************************)
(* ModUnpacker::build_file and build_sarc (unpack.rs).                     *)
(***************************************************************************)
NoData == [nofile |-> TRUE]

\* The versions of the mods, in the order of the mod list. A mod whose
\* get_data fails is left out (.ok()); a payload that does not deserialise
\* fails the build (the ? after from_slice).
RECURSIVE ModVersions(_, _)
ModVersions(ms, file) ==
    IF ms = <<>> THEN [ok |-> TRUE, versions |-> <<>>]
    ELSE LET r == get_data(Head(ms), file)
             rest == ModVersions(Tail(ms), file)
         IN  IF ~r.ok THEN rest
             ELSE IF r.data.kind \notin {"Binary", "Mergeable", "Sarc"}
                  THEN [ok |-> FALSE, versions |-> <<>>]
                  ELSE [ok |-> rest.ok, versions |-> <<r.data>> \o rest.versions]

\* Mergeable::merge of the resource: the parameter object of the kind
\* (AttClient::merge on client_params).
MergeableMerge(res, v) == merge_pobj(res, v)

RECURSIVE FoldMergeable_LastFirst(_, _)
FoldMergeable_LastFirst(res, versions) ==
    IF versions = <<>> THEN res
    ELSE LET v == versions[Len(versions)]
         IN  FoldMergeable_LastFirst(
                 IF v.kind = "Mergeable" THEN MergeableMerge(res, v.val) ELSE res,
                 SubSeq(versions, 1, Len(versions) - 1))

\* The Mergeable arm: fold merge over the versions, first to last.
RECURSIVE FoldMergeable(_, _)
FoldMergeable(res, versions) ==
    IF versions = <<>> THEN res
    ELSE FoldMergeable(
             IF Head(versions).kind = "Mergeable"
             THEN MergeableMerge(res, Head(versions).val) ELSE res,
             Tail(versions))

BinaryResult_First(bv, rest) == IF rest = <<>> THEN bv.data ELSE rest[1].data

\* The Binary arm: versions.pop_back().unwrap_or(base_version).
BinaryResult(bv, rest) ==
    IF rest = <<>> THEN bv.data ELSE rest[Len(rest)].data

\* SarcMap::merge: the union of the child paths.
SarcMerge(a, b) == a \cup b

FoldSarc_BaseOnly(res, versions) == res

\* The Sarc arm: fold merge over the versions.
RECURSIVE FoldSarc(_, _)
FoldSarc(res, versions) ==
    IF versions = <<>> THEN res
    ELSE FoldSarc(
             IF Head(versions).kind = "Sarc"
             THEN SarcMerge(res, Head(versions).files) ELSE res,
             Tail(versions))

\* Mergeable::into_binary: the serialised parameter archive.
into_binary(val) == [aamp |-> val]

\* compress_if: Yaz0 iff the path's suffix asks for it.
Yaz0Path(p) == p = "X"

compress_if(data, p) == IF Yaz0Path(p) THEN [yaz0 |-> data] ELSE data

\* SarcWriter::add_file and to_binary.
add_file(built, file, data) == Append(built, <<file, compress_if(data, file)>>)

to_binary(built) == [sarc |-> built]

InOrder(S) == SelectSeq(PathOrder, LAMBDA p : p \in S)

\* build_file from the mod loop on: the versions, the base version and the
\* arm it selects.
Reduce(ms, f) ==
    LET mv == ModVersions(ms, f.file)
        versions == (IF f.base.kind = "None" THEN <<>> ELSE <<f.base>>)
                        \o mv.versions
    IN  IF ~mv.ok \/ versions = <<>>
        THEN [status |-> "err", data |-> NoData, files |-> {}]
        ELSE LET bv == Head(versions)
                 rest == Tail(versions)
             IN  CASE bv.kind = "Binary" ->
                        [status |-> "data",
                         data |-> [raw |-> BinaryResult(bv, rest)],
                         files |-> {}]
                   [] bv.kind = "Mergeable" ->
                        [status |-> "data",
                         data |-> into_binary(FoldMergeable(bv.val, rest)),
                         files |-> {}]
                   [] bv.kind = "Sarc" ->
                        [status |-> "sarc", data |-> NoData,
                         files |-> FoldSarc(bv.files, rest)]

\* A call of build_file: its file, where it stands, the base version the
\* dump gave, the children of a parse still to be cached, and for a
\* container the children still to build and those built.
NewFrame(file) ==
    [file |-> file, pc |-> "get", base |-> NoRes, processed |-> {},
     todo |-> <<>>, built |-> <<>>]

\* The top call of the stack returns data. Its caller, build_sarc, adds the
\* file and builds the next child, or writes the container and returns in
\* turn. An empty stack is left when the outermost call has returned.
RECURSIVE Complete(_, _)
Complete(stack, data) ==
    LET f == stack[Len(stack)]
        rec == [file |-> f.file, base |-> f.base, data |-> data,
                depth |-> Len(stack)]
        below == SubSeq(stack, 1, Len(stack) - 1)
    IN  IF below = <<>> THEN [stack |-> <<>>, data |-> data, log |-> {rec}]
        ELSE LET par == below[Len(below)]
                 par2 == [par EXCEPT !.built = add_file(par.built, f.file, data),
                                     !.todo = Tail(par.todo)]
                 below2 == [below EXCEPT ![Len(below)] = par2]
             IN  IF par2.todo # <<>>
                 THEN [stack |-> Append(below2, NewFrame(Head(par2.todo))),
                       data |-> NoData, log |-> {rec}]
                 ELSE LET c == Complete(below2, to_binary(par2.built))
                      IN  [stack |-> c.stack, data |-> c.data,
                           log |-> c.log \cup {rec}]

(***************************************************************************)
(* ModUnpacker::unpack and unpack_files (unpack.rs).                       *)
(***************************************************************************)
Touched_ModsOnly(ms, mf, root) ==
    IF root = "content" THEN UNION {ms[i].content_files : i \in DOMAIN ms}
    ELSE UNION {ms[i].aoc_files : i \in DOMAIN ms}

\* The touched files of a root: the explicit manifest's, or the union of
\* the mods' manifests.
Touched(ms, mf, root) ==
    IF root = "content"
    THEN IF mf.some THEN mf.content_files
         ELSE UNION {ms[i].content_files : i \in DOMAIN ms}
    ELSE IF mf.some THEN mf.aoc_files
         ELSE UNION {ms[i].aoc_files : i \in DOMAIN ms}

\* canonicalize of the output path below out_dir: the content prefix is
\* stripped, the add-on prefix becomes Aoc/0010/.
canonicalize(root, file) ==
    IF root = "aoc" THEN "Aoc/0010/" \o file ELSE file

\* rstb::calc::calc_from_slice_and_name: a size for the data under that
\* name, or None for a name that has no size entry.
calc_size(data, canon) ==
    IF canon = "B" THEN [some |-> FALSE, n |-> <<>>]
    ELSE [some |-> TRUE, n |-> <<canon, data>>]

NoEntry == [some |-> FALSE, canon |-> "", size |-> [some |-> FALSE, n |-> <<>>]]

rstb_entry_raw_name(j, data) ==
    [some |-> TRUE, canon |-> j[2], size |-> calc_size(data, j[2])]

\* The (canon, size) pair a build yields.
rstb_entry(j, data) ==
    [some |-> TRUE, canon |-> canonicalize(j[1], j[2]),
     size |-> calc_size(data, canonicalize(j[1], j[2]))]

\* collect() of the content pairs chained with the add-on pairs into a
\* HashMap: a later pair replaces an earlier one of the same key.
RstbMap(r) ==
    LET ents(root) == {r[j] : j \in {i \in JobIds : i[1] = root /\ r[i].some}}
        keys == {e.canon : e \in ents("content") \cup ents("aoc")}
    IN  [k \in keys |->
            IF \E e \in ents("aoc") : e.canon = k
            THEN (CHOOSE e \in ents("aoc") : e.canon = k).size
            ELSE (CHOOSE e \in ents("content") : e.canon = k).size]

ParamOff ==
    /\ pkind = None /\ base = None /\ other = None /\ patch = None
    /\ merged = None /\ ppc = "off"

Init ==
    /\ ParamOff
    /\ dump \in DumpSet
    /\ mods \in ModLists
    /\ manifest \in ManifestSet
    /\ cache = [p \in Paths |-> NoRes]
    /\ jobs = [j \in JobIds |->
                  IF j[2] \in Touched(mods, manifest, j[1])
                  THEN [pc |-> "idle", stack |-> <<NewFrame(j[2])>>]
                  ELSE [pc |-> "unused", stack |-> <<>>]]
    /\ phase = "content"
    /\ outFiles = [j \in JobIds |-> NoData]
    /\ writes = [j \in JobIds |-> 0]
    /\ rstb = [j \in JobIds |-> NoEntry]
    /\ result = [status |-> "running", map |-> <<>>]
    /\ builds = {}

Top(j) == jobs[j].stack[Len(jobs[j].stack)]

SetTop(j, f) ==
    [jobs EXCEPT ![j] = [pc |-> "run",
                         stack |-> [jobs[j].stack EXCEPT ![Len(jobs[j].stack)] = f]]]

\* A build the pool may run: of the phase's root, not yet returned.
Runnable(j) == jobs[j].pc \in {"idle", "run"} /\ phase = j[1]

\* build_file: self.dump.get_data(file).
GetData(j) ==
    /\ Runnable(j)
    /\ Top(j).pc = "get"
    /\ LET r == get_file(cache, dump, Top(j).file)
       IN  /\ cache' = r.cache
           /\ jobs' = SetTop(j, [Top(j) EXCEPT
                          !.base = r.res,
                          !.processed = r.processed,
                          !.pc = IF ~r.ok THEN "res"
                                 ELSE IF r.processed # {} THEN "ins"
                                 ELSE "mods"])
    /\ UNCHANGED <<pvars, inputs, phase, outFiles, writes, rstb, result, builds>>

\* get_file after try_get_with: the processed children enter the cache.
InsertProcessed(j) ==
    /\ Runnable(j)
    /\ Top(j).pc = "ins"
    /\ cache' = insert_processed(cache, Top(j).processed)
    /\ jobs' = SetTop(j, [Top(j) EXCEPT !.processed = {}, !.pc = "mods"])
    /\ UNCHANGED <<pvars, inputs, phase, outFiles, writes, rstb, result, builds>>

\* build_file: .or_else(|_| self.dump.get_resource(file)); an Err leaves
\* the build without a dump version.
GetResource(j) ==
    /\ Runnable(j)
    /\ Top(j).pc = "res"
    /\ jobs' = SetTop(j, [Top(j) EXCEPT !.base = get_resource(cache, Top(j).file).res,
                                        !.pc = "mods"])
    /\ UNCHANGED <<pvars, inputs, cache, phase, outFiles, writes, rstb, result,
                   builds>>

\* The calls of build_file that returned, with the build they belong to.
Tag(j, log) ==
    {[job |-> j, file |-> r.file, base |-> r.base, data |-> r.data,
      depth |-> r.depth] : r \in log}

\* unpack_files after build_file returned Ok: the file is written below the
\* root and its size computed.
Finish(j, data, log) ==
    /\ jobs' = [jobs EXCEPT ![j] = [pc |-> "done", stack |-> <<>>]]
    /\ outFiles' = [outFiles EXCEPT ![j] = compress_if(data, j[2])]
    /\ writes' = [writes EXCEPT ![j] = @ + 1]
    /\ rstb' = [rstb EXCEPT ![j] = rstb_entry(j, data)]
    /\ builds' = builds \cup Tag(j, log)

\* build_file from the mod loop to its return, and what its callers do with
\* the data: build_sarc goes on to the next child, unpack_files writes.
Build(j) ==
    /\ Runnable(j)
    /\ Top(j).pc = "mods"
    /\ LET r == Reduce(mods, Top(j))
       IN  CASE r.status = "err" ->
                  /\ jobs' = [jobs EXCEPT ![j] = [pc |-> "failed", stack |-> <<>>]]
                  /\ UNCHANGED <<outFiles, writes, rstb, builds>>
             [] r.status = "sarc" /\ r.files # {} ->
                  /\ jobs' = [jobs EXCEPT ![j] =
                        [pc |-> "run",
                         stack |-> Append(
                             [jobs[j].stack EXCEPT ![Len(jobs[j].stack)] =
                                 [Top(j) EXCEPT !.pc = "kids",
                                                !.todo = InOrder(r.files)]],
                             NewFrame(Head(InOrder(r.files))))]]
                  /\ UNCHANGED <<outFiles, writes, rstb, builds>>
             [] OTHER ->
                  LET c == Complete(jobs[j].stack,
                                    IF r.status = "sarc" THEN to_binary(<<>>)
                                    ELSE r.data)
                  IN  IF c.stack = <<>>
                      THEN Finish(j, c.data, c.log)
                      ELSE /\ jobs' = [jobs EXCEPT ![j] =
                                          [pc |-> "run", stack |-> c.stack]]
                           /\ builds' = builds \cup Tag(j, c.log)
                           /\ UNCHANGED <<outFiles, writes, rstb>>
    /\ UNCHANGED <<pvars, inputs, cache, phase, result>>

PhaseJobs == {j \in JobIds : j[1] = phase /\ jobs[j].pc # "unused"}

\* The parallel collect into a Result: once a build has failed, a build
\* that has not started need not start.
Skip(j) ==
    /\ jobs[j].pc = "idle"
    /\ phase = j[1]
    /\ \E i \in PhaseJobs : jobs[i].pc = "failed"
    /\ jobs' = [jobs EXCEPT ![j] = [pc |-> "skipped", stack |-> <<>>]]
    /\ UNCHANGED <<pvars, inputs, cache, phase, outFiles, writes, rstb, result,
                   builds>>

\* unpack_files returns: an Err ends unpack (the ?), the content map is
\* followed by the add-on files, the add-on map by unpack's Ok.
EndPhase ==
    /\ phase \in Roots
    /\ \A j \in PhaseJobs : jobs[j].pc \in {"done", "failed", "skipped"}
    /\ IF \E j \in PhaseJobs : jobs[j].pc = "failed"
       THEN /\ phase' = "end"
            /\ result' = [status |-> "err", map |-> <<>>]
       ELSE IF phase = "content"
            THEN /\ phase' = "aoc"
                 /\ UNCHANGED result
            ELSE /\ phase' = "end"
                 /\ result' = [status |-> "ok", map |-> RstbMap(rstb)]
    /\ UNCHANGED <<pvars, inputs, cache, jobs, outFiles, writes, rstb, builds>>

Next ==
    \/ \E j \in JobIds : GetData(j)
    \/ \E j \in JobIds : InsertProcessed(j)
    \/ \E j \in JobIds : GetResource(j)
    \/ \E j \in JobIds : Build(j)
    \/ \E j \in JobIds : Skip(j)
    \/ EndPhase

Spec == Init /\ [][Next]_vars

(***************************************************************************)
(* The dump reader on its own (uk-reader/src/lib.rs): threads that call    *)
(* get_file and get_resource on one reader. jobs holds a record per        *)
(* calling thread here. The cache is the bounded concurrent map the reader *)
(* is built with: try_get_with runs its closure for one caller per key,    *)
(* the callers that arrive meanwhile wait and take its result, and a cache *)
(* over its capacity drops entries. A cached value is an Arc, told apart   *)
(* by the call that made it.                                               *)
(***************************************************************************)
MaxCallers == 2

\* The calls the threads make between them.
MaxCalls == 3

\* ResourceCache::new(10_000), scaled down.
CacheCapacity == 2

Callers == 1..MaxCallers

ReaderPaths == {"B", "X", "Y"}

\* The loose files B and X of the dump: readable, missing, unreadable, not
\* valid yaz0 ("corrupt"), or failing to parse after its first child has
\* been parsed ("garbled").
ReaderDumps ==
    {Loose("ok", "ok"), Loose("ioerr", "garbled"), Loose("absent", "corrupt"),
     Loose("ok", "absent")}

Arc(res, id) == [kind |-> "Arc", res |-> res, id |-> id]

Cached(c) == {p \in Paths : c[p].kind # "None"}

\* The closure of try_get_with: get_file_data, decompress_if, from_binary.
\* The children a parse meets are put into processed as it goes.
read_parse(d, p) ==
    CASE d[p] = "ok" ->
           [ok |-> TRUE, res |-> DumpRes(p), processed |-> DumpChildren(p)]
      [] d[p] = "garbled" ->
           [ok |-> FALSE, res |-> NoRes,
            processed |-> DumpChildren(p) \cap {"Y"}]
      [] OTHER ->
           [ok |-> FALSE, res |-> NoRes, processed |-> {}]

try_get_with_enter_unsynchronised(c, js, p) ==
    IF c[p].kind # "None" THEN "hit" ELSE "init"

\* try_get_with on entry: the value if it is cached, else the closure
\* unless another caller is running it for this key.
try_get_with_enter(c, js, p) ==
    IF c[p].kind # "None" THEN "hit"
    ELSE IF \E u \in DOMAIN js : js[u].pc = "init" /\ js[u].path = p THEN "wait"
    ELSE "init"

processed_taken_always(r) == r.processed

\* processed.take() after the ? on try_get_with's result: the children of
\* a call that failed are dropped with it.
processed_taken(r) == IF r.ok THEN r.processed ELSE {}

NoCall == [op |-> "none", path |-> "", ret |-> [ok |-> FALSE, res |-> NoRes]]

ReaderInit ==
    /\ ParamOff
    /\ dump \in ReaderDumps
    /\ mods = <<>>
    /\ manifest = None
    /\ cache = [p \in Paths |-> NoRes]
    /\ jobs = [t \in Callers |->
                  [pc |-> "idle", n |-> 0, op |-> "none", path |-> "",
                   ret |-> NoCall.ret, parsed |-> FALSE, waited |-> FALSE,
                   processed |-> {}, prev |-> NoCall]]
    /\ phase = "reader"
    /\ outFiles = None
    /\ writes = None
    /\ rstb = None
    /\ result = None
    /\ builds = {}

RECURSIVE CallsOf(_, _)
CallsOf(js, t) == IF t = 0 THEN 0 ELSE js[t].n + CallsOf(js, t - 1)

CallsMade == CallsOf(jobs, MaxCallers)

\* A thread starts its next call; the call before becomes prev.
Begin(t, op, p) ==
    [jobs[t] EXCEPT !.n = @ + 1, !.op = op, !.path = p,
                    !.parsed = FALSE, !.waited = FALSE, !.processed = {},
                    !.prev = [op |-> jobs[t].op, path |-> jobs[t].path,
                              ret |-> jobs[t].ret]]

\* get_resource(p): the cache alone.
CallGetResource(t, p) ==
    /\ jobs[t].pc = "idle"
    /\ CallsMade < MaxCalls
    /\ jobs' = [jobs EXCEPT ![t] =
                   [Begin(t, "get_resource", p) EXCEPT
                       !.ret = get_resource(cache, p)]]
    /\ UNCHANGED <<pvars, inputs, cache, phase, outFiles, writes, rstb, result,
                   builds>>

\* get_file(p) up to the entry of try_get_with: a hit returns, with nothing
\* processed to insert.
CallGetFile(t, p) ==
    /\ jobs[t].pc = "idle"
    /\ CallsMade < MaxCalls
    /\ LET enter == try_get_with_enter(cache, jobs, p)
       IN  jobs' = [jobs EXCEPT ![t] =
                      IF enter = "hit"
                      THEN [Begin(t, "get_file", p) EXCEPT
                               !.ret = [ok |-> TRUE, res |-> cache[p]]]
                      ELSE [Begin(t, "get_file", p) EXCEPT
                               !.pc = enter,
                               !.waited = (enter = "wait")]]
    /\ UNCHANGED <<pvars, inputs, cache, phase, outFiles, writes, rstb, result,
                   builds>>

\* The closure returns: on Ok the value enters the cache, and the callers
\* waiting for the key return what this caller gets. The caller goes on to
\* insert its processed children, or returns.
Compute(t) ==
    /\ jobs[t].pc = "init"
    /\ LET p == jobs[t].path
           r == read_parse(dump, p)
           ret == IF r.ok
                  THEN [ok |-> TRUE, res |-> Arc(r.res, <<t, jobs[t].n>>)]
                  ELSE [ok |-> FALSE, res |-> NoRes]
           kids == processed_taken(r)
       IN  /\ cache' = IF r.ok THEN [cache EXCEPT ![p] = ret.res] ELSE cache
           /\ jobs' = [u \in Callers |->
                  IF u = t
                  THEN [jobs[t] EXCEPT
                           !.pc = IF kids # {} THEN "ins" ELSE "idle",
                           !.ret = ret, !.parsed = TRUE, !.processed = kids]
                  ELSE IF jobs[u].pc = "wait" /\ jobs[u].path = p
                  THEN [jobs[u] EXCEPT !.pc = "idle", !.ret = ret]
                  ELSE jobs[u]]
    /\ UNCHANGED <<pvars, inputs, phase, outFiles, writes, rstb, result, builds>>

\* The loop after try_get_with: cache.insert of every processed child, each
\* in a new Arc.
InsertChildren(t) ==
    /\ jobs[t].pc = "ins"
    /\ cache' = [p \in Paths |->
                    IF p \in jobs[t].processed
                    THEN Arc(DumpRes(p), <<t, jobs[t].n>>)
                    ELSE cache[p]]
    /\ jobs' = [jobs EXCEPT ![t] = [@ EXCEPT !.pc = "idle", !.processed = {}]]
    /\ UNCHANGED <<pvars, inputs, phase, outFiles, writes, rstb, result, builds>>

\* The cache holds more entries than its capacity and drops one.
Evict ==
    /\ Cardinality(Cached(cache)) > CacheCapacity
    /\ \E p \in Cached(cache) : cache' = [cache EXCEPT ![p] = NoRes]
    /\ UNCHANGED <<pvars, inputs, jobs, phase, outFiles, writes, rstb, result,
                   builds>>

ReaderNext ==
    \/ \E t \in Callers, p \in ReaderPaths : CallGetResource(t, p)
    \/ \E t \in Callers, p \in ReaderPaths : CallGetFile(t, p)
    \/ \E t \in Callers : Compute(t)
    \/ \E t \in Callers : InsertChildren(t)
    \/ Evict

SpecReader == ReaderInit /\ [][ReaderNext]_vars

(***************************************************************************)
(* uk-manager/src/bnp/maps.rs: merge_map and merge_section. A map unit is  *)
(* a hash with the arrays Objs and Rails; an object is a hash with a       *)
(* HashId. A section of the diff is a hash with add (an array of objects), *)
(* del (an array of HashIds) and mod (a hash from HashId to the changed    *)
(* entries of that object). Every object of the inputs carries a HashId,   *)
(* so an absent add, del or mod acts as an empty one.                      *)
(***************************************************************************)
MaxObjs == 3

Panic == [status |-> "panic"]

\* hashes: HashId -> index in base, collected into a map, so that the last
\* object of an id decides.
HashIndex(objs) ==
    [h \in {objs[i].HashId : i \in DOMAIN objs} |->
        CHOOSE i \in DOMAIN objs :
            /\ objs[i].HashId = h
            /\ \A k \in DOMAIN objs : objs[k].HashId = h => k <= i]

\* The object at index i after the mod entries are applied through the
\* index table.
ModAt(kept, hashes, mod, i) ==
    LET hit == {h \in DOMAIN mod : h \in DOMAIN hashes /\ hashes[h] = i}
    IN  IF hit = {} THEN kept[i]
        ELSE merge_byml_shallow(Hash(kept[i]), Hash(mod[CHOOSE h \in hit : TRUE])).hash

\* merge_section: the index table of base is built first; then the adds
\* that base does not hold are appended, the dels are dropped (retain), and
\* each mod entry is merged into base[hashes[id]]. An index past the end
\* of the array panics.
merge_section(b, d) ==
    LET hashes == HashIndex(b)
        added == b \o SelectSeq(d.add, LAMBDA o : o.HashId \notin DOMAIN hashes)
        kept == SelectSeq(added, LAMBDA o : o.HashId \notin d.del)
    IN  IF \E h \in DOMAIN d.mod : h \in DOMAIN hashes /\ hashes[h] > Len(kept)
        THEN Panic
        ELSE [status |-> "ok",
              objs |-> [i \in 1..Len(kept) |-> ModAt(kept, hashes, d.mod, i)]]

NoSection == [add |-> <<>>, del |-> {}, mod |-> <<>>]

\* merge_map: merge_section on Objs, then on Rails.
merge_map(b, d) ==
    LET o == merge_section(b.Objs, d.Objs)
        r == merge_section(b.Rails, d.Rails)
    IN  IF o.status = "panic" \/ r.status = "panic" THEN Panic
        ELSE [status |-> "ok", Objs |-> o.objs, Rails |-> r.objs]

\* The map units and diffs merge_map is exercised on.
Obj(h) == [HashId |-> h, f |-> 1, g |-> 1]

BaseObjs == {[i \in 1..n |-> Obj(i)] : n \in 1..MaxObjs}

NewId == MaxObjs + 1

AddSet == {<<>>, <<Obj(NewId)>>, <<[Obj(1) EXCEPT !.f = 2]>>,
           <<[Obj(1) EXCEPT !.f = 2], Obj(NewId)>>}

Entry == [f |-> 2]

ModSet == {[h \in ids |-> Entry] : ids \in SUBSET (1..MaxObjs)}

SectionDiffs ==
    {[add |-> a, del |-> dl, mod |-> m] :
        a \in AddSet, dl \in SUBSET (1..NewId), m \in ModSet}

RailDiffs == {NoSection, [add |-> <<>>, del |-> {1}, mod |-> <<>>]}

MapInit ==
    /\ UnpackOff
    /\ pkind = "map"
    /\ base \in {[Objs |-> o, Rails |-> <<Obj(1)>>] : o \in BaseObjs}
    /\ other \in {[Objs |-> d, Rails |-> r] : d \in SectionDiffs, r \in RailDiffs}
    /\ patch = None
    /\ merged = None
    /\ ppc = "init"

\* merge_map(&mut base, diff) as handle_maps calls it.
MergeMap ==
    /\ ppc = "init"
    /\ pkind = "map"
    /\ patch' = other
    /\ merged' = merge_map(base, other)
    /\ ppc' = "applied"
    /\ UNCHANGED <<pkind, base, other>>
    /\ UNCHANGED uvars

SpecMap == MapInit /\ [][MergeMap]_vars

(***************************************************************************)
(* The mod manager's window: moving the selected mods (gui.rs).  The mod   *)
(* list and the selection are held in base, the destination in other, the  *)
(* build's overflow checking in patch and the outcome in merged.           *)
(***************************************************************************)
MaxListed == 3

\* Ord::clamp.
clamp(x, lo, hi) == IF x < lo THEN lo ELSE IF x > hi THEN hi ELSE x

\* Vector::contains.
contains(list, m) == \E i \in DOMAIN list : list[i] = m

\* Vector::insert at the index i, counted from 0.
insert(list, i, m) ==
    SubSeq(list, 1, i) \o <<m>> \o SubSeq(list, i + 1, Len(list))

\* The loop over self.selected: the i-th selected mod goes to
\* (dest_index + i).min(self.mods.len()).
RECURSIVE InsertSelected(_, _, _, _)
InsertSelected(list, selected, dest_index, i) ==
    IF i >= Len(selected)
    THEN list
    ELSE LET at == IF dest_index + i < Len(list)
                   THEN dest_index + i
                   ELSE Len(list)
         IN  InsertSelected(insert(list, at, selected[i + 1]),
                            selected, dest_index, i + 1)

\* Message::MoveSelected on the mod list.  self.mods.len() - 1 is taken in
\* usize: on an empty list a build with overflow checks panics there and one
\* without wraps to usize::MAX, which leaves the destination as it is.
MoveSelected(list, selected, d, overflow_checks) ==
    IF Len(list) = 0 /\ overflow_checks
    THEN Panic
    ELSE LET dest_index == IF Len(list) = 0
                           THEN d
                           ELSE clamp(d, 0, Len(list) - 1)
         IN  IF Len(selected) = Len(list)
             THEN Ok(list)
             ELSE Ok(InsertSelected(
                      SelectSeq(list, LAMBDA m : ~contains(selected, m)),
                      selected, dest_index, 0))

\* The sequences of distinct members of S.
Arrangements(S) ==
    {q \in UNION {[1..n -> S] : n \in 0..Cardinality(S)} :
        \A i, j \in DOMAIN q : i # j => q[i] # q[j]}

\* The mod lists, and for each the selections that are part of it.
ModVectors == Arrangements(1..MaxListed)

Selections(list) == Arrangements({list[i] : i \in DOMAIN list})

MoveInit ==
    /\ UnpackOff
    /\ pkind = "move"
    /\ base \in {[mods |-> list, selected |-> selected] :
                    list \in ModVectors,
                    selected \in Arrangements(1..MaxListed)}
    /\ base.selected \in Selections(base.mods)
    /\ other \in 0..(MaxListed + 1)
    /\ patch \in BOOLEAN
    /\ merged = Panic
    /\ ppc = "init"

HandleMoveSelected ==
    /\ pkind = "move"
    /\ ppc = "init"
    /\ merged' = MoveSelected(base.mods, base.selected, other, patch)
    /\ ppc' = "moved"
    /\ UNCHANGED <<pkind, base, other, patch>>
    /\ UNCHANGED uvars

SpecMove == MoveInit /\ [][HandleMoveSelected]_vars

(***************************************************************************)
(* The mod manager's window: the log (gui.rs).  The entries kept and the   *)
(* formatted job are held in base, the entries that arrived in merged.     *)
(***************************************************************************)
\* The window keeps 100 entries; the model keeps fewer.
LogCapacity == 3

\* The entries that arrive.
MaxLogged == 5

Levels == {"INFO", "WARN", "ERROR"}

\* LayoutJob::append: one more section, for the text given.
append(job, text) == [job EXCEPT !.sections = Append(@, text)]

\* Entry::format: the timestamp, the level, the arguments and the line end.
Entry_format(entry, job) ==
    append(append(append(append(job,
        [of |-> entry, part |-> "timestamp"]),
        [of |-> entry, part |-> "level"]),
        [of |-> entry, part |-> "args"]),
        [of |-> entry, part |-> "newline"])

\* self.log.sections.remove(0).
remove_first(job) == [job EXCEPT !.sections = Tail(@)]

\* Message::Log where the oldest entry leaves and its sections stay.
HandleLog_sections_kept(app, entry) ==
    LET formatted == Entry_format(entry, app.log)
        pushed == Append(app.logs, entry)
    IN  IF Len(pushed) > LogCapacity
        THEN [app EXCEPT !.logs = Tail(pushed), !.log = formatted]
        ELSE [app EXCEPT !.logs = pushed, !.log = formatted]

\* Message::Log(entry).
HandleLog(app, entry) ==
    LET formatted == Entry_format(entry, app.log)
        pushed == Append(app.logs, entry)
    IN  IF Len(pushed) > LogCapacity
        THEN [app EXCEPT
                 !.logs = Tail(pushed),
                 !.log = remove_first(remove_first(remove_first(
                             remove_first(formatted))))]
        ELSE [app EXCEPT !.logs = pushed, !.log = formatted]

LogInit ==
    /\ UnpackOff
    /\ pkind = "log"
    /\ base = [logs |-> <<>>, log |-> [sections |-> <<>>]]
    /\ other = None
    /\ patch = None
    /\ merged = <<>>
    /\ ppc = "run"

\* handle_update receives Message::Log(entry).
Log(level) ==
    /\ pkind = "log"
    /\ Len(merged) < MaxLogged
    /\ LET entry == [timestamp |-> Len(merged) + 1, level |-> level]
       IN  /\ base' = HandleLog(base, entry)
           /\ merged' = Append(merged, entry)
    /\ UNCHANGED <<pkind, other, patch, ppc>>
    /\ UNCHANGED uvars

SpecLog == LogInit /\ [][\E level \in Levels : Log(level)]_vars

(***************************************************************************)
(* handle_maps (maps.rs).  The sections of logs/map.yml and the units the  *)
(* dump holds are in base, the sections not yet handled in other, the      *)
(* files written in patch, and what each section's closure did and what    *)
(* the call returned in merged.                                            *)
(***************************************************************************)
\* The longest section name, in characters.
MaxName == 3

NameChars == {"a", "_"}

SectionNames == UNION {[1..n -> NameChars] : n \in 1..MaxName}

\* str::split: the pieces between the separators, one more than there are
\* separators.
RECURSIVE split(_, _)
split(s, sep) ==
    IF \A i \in DOMAIN s : s[i] # sep
    THEN <<s>>
    ELSE LET k == CHOOSE i \in DOMAIN s :
                      s[i] = sep /\ \A j \in 1..(i - 1) : s[j] # sep
         IN  <<SubSeq(s, 1, k - 1)>> \o split(SubSeq(s, k + 1, Len(s)), sep)

\* The operator ! on a usize, at the model's word width.
not_usize(n) == (Modulus - 1) - n

\* jstr!("Map/MainField/{&parts[1]}/{&section}.sbyml").
MapPath(dir, section) == [dir |-> dir, unit |-> section]

MapUnit == [Objs |-> <<Obj(1)>>, Rails |-> <<Obj(1)>>]

MapDiff ==
    [Objs |-> [add |-> <<Obj(NewId)>>, del |-> {}, mod |-> <<>>],
     Rails |-> NoSection]

Ran(status, read, written) ==
    [status |-> status, read |-> read, written |-> written]

\* The closure handle_maps runs on one section: parts[1] is indexed first,
\* then `!parts.len() == 2` is tested, then the unit is read from the dump,
\* merged and written.
handle_section(section, diff, present) ==
    LET parts == split(section, "_")
    IN  IF Len(parts) < 2
        THEN Ran("panic", {}, {})
        ELSE LET path == MapPath(parts[2], section)
             IN  IF not_usize(Len(parts)) = 2
                 THEN Ran("Bad map diff", {}, {})
                 ELSE IF path \notin present
                 THEN Ran("not in dump", {path}, {})
                 ELSE LET map == merge_map(MapUnit, diff)
                      IN  IF map.status = "panic"
                          THEN Ran("panic", {path}, {})
                          ELSE Ran("ok", {path},
                                   {[path |-> path,
                                     data |-> [Objs |-> map.Objs,
                                               Rails |-> map.Rails]]})

\* The paths a section name can stand for.
PathsOf(sections) ==
    {MapPath(dir, s) : dir \in UNION {[1..n -> NameChars] : n \in 0..MaxName},
                       s \in sections}

Failed(ran) == \E s \in DOMAIN ran : ran[s].status # "ok"

MapsInit ==
    /\ UnpackOff
    /\ pkind = "maps"
    /\ base \in {[diff |-> d, present |-> {}] :
                    d \in {s \in SUBSET SectionNames :
                              Cardinality(s) \in 1..2}}
                \cup {[diff |-> d,
                       present |-> {MapPath(split(s, "_")[2], s) :
                                       s \in {n \in d : Len(split(n, "_")) > 1}}] :
                         d \in {s \in SUBSET SectionNames :
                                   Cardinality(s) \in 1..2}}
    /\ other = base.diff
    /\ patch = {}
    /\ merged = [ran |-> <<>>, returned |-> "running"]
    /\ ppc = "run"

\* One section of the parallel try_for_each.
HandleSection(section) ==
    /\ pkind = "maps"
    /\ ppc = "run"
    /\ section \in other
    /\ LET ran == handle_section(section, MapDiff, base.present)
       IN  /\ merged' = [merged EXCEPT
                            !.ran = [s \in DOMAIN @ \cup {section} |->
                                        IF s = section THEN ran ELSE @[s]]]
           /\ patch' = patch \cup ran.written
    /\ other' = other \ {section}
    /\ UNCHANGED <<pkind, base, ppc>>
    /\ UNCHANGED uvars

\* try_for_each returns: a panic of a closure is passed on, an error of one
\* is returned and stops the sections not yet started, and Ok(()) needs every
\* section to have been handled.
ReturnMaps ==
    /\ pkind = "maps"
    /\ ppc = "run"
    /\ other = {} \/ Failed(merged.ran)
    /\ \E returned \in {"ok"} \cup {merged.ran[s].status : s \in DOMAIN merged.ran} :
           /\ returned = "ok" <=> ~Failed(merged.ran)
           /\ (\E s \in DOMAIN merged.ran : merged.ran[s].status = "panic")
                  => returned = "panic"
           /\ merged' = [merged EXCEPT !.returned = returned]
    /\ ppc' = "done"
    /\ UNCHANGED <<pkind, base, other, patch>>
    /\ UNCHANGED uvars

SpecMaps ==
    MapsInit /\ [][(\E section \in SectionNames : HandleSection(section))
                       \/ ReturnMaps]_vars

(***************************************************************************)
(* The editor's window (uk-editor main.rs).  The app's fields are held in  *)
(* base, its channel in other, the worker threads that have not sent their *)
(* message yet in patch and the number of the user's clicks in merged.     *)
(***************************************************************************)
\* The clicks the user makes.
MaxClicks == 3

\* App::do_update: the message goes to the end of the channel.
Editor_do_update(channel, message) == Append(channel, message)

\* App::do_task: busy is set and a thread is started that sends the task's
\* message when it is done.
Editor_do_task(app, threads, message) ==
    [app |-> [app EXCEPT !.busy = TRUE], threads |-> Append(threads, message)]

\* What the thread sends: the task's message, or Message::Error for an error
\* and for a panic caught by catch_unwind alike.
Sent(message, outcome) == IF outcome = "ok" THEN message ELSE "Error"

Without(q, i) == SubSeq(q, 1, i - 1) \o SubSeq(q, i + 1, Len(q))

EditorInit ==
    /\ UnpackOff
    /\ pkind = "editor"
    /\ base = [project |-> FALSE, tabs |-> 0, busy |-> FALSE]
    /\ other = <<>>
    /\ patch = <<>>
    /\ merged = 0
    /\ ppc = "run"

Editing == pkind = "editor" /\ ppc = "run"

\* File, Open Project, with a folder picked: do_task(Project::open).
ClickOpenProject ==
    /\ Editing
    /\ merged < MaxClicks
    /\ merged' = merged + 1
    /\ LET started == Editor_do_task(base, patch, "OpenProject")
       IN  base' = started.app /\ patch' = started.threads
    /\ UNCHANGED <<pkind, other, ppc>>
    /\ UNCHANGED uvars

\* File, Import Mod, or a resource chosen in the file tree: do_update.
Click(message) ==
    /\ Editing
    /\ merged < MaxClicks
    /\ merged' = merged + 1
    /\ other' = Editor_do_update(other, message)
    /\ UNCHANGED <<pkind, base, patch, ppc>>
    /\ UNCHANGED uvars

\* A worker thread comes to its end and sends its message.
TaskEnds(i, outcome) ==
    /\ Editing
    /\ i \in DOMAIN patch
    /\ other' = Editor_do_update(other, Sent(patch[i], outcome))
    /\ patch' = Without(patch, i)
    /\ UNCHANGED <<pkind, base, merged, ppc>>
    /\ UNCHANGED uvars

Received(message) ==
    /\ Editing
    /\ other # <<>>
    /\ Head(other) = message
    /\ other' = Tail(other)

\* Message::Error(e): dbg!(e).
HandleError ==
    /\ Received("Error")
    /\ UNCHANGED <<pkind, base, patch, merged, ppc>>
    /\ UNCHANGED uvars

\* Message::ImportMod: the file dialog gives a path or is cancelled.
HandleImportMod(picked) ==
    /\ Received("ImportMod")
    /\ LET started == Editor_do_task(base, patch, "OpenProject")
       IN  IF picked
           THEN base' = started.app /\ patch' = started.threads
           ELSE UNCHANGED <<base, patch>>
    /\ UNCHANGED <<pkind, merged, ppc>>
    /\ UNCHANGED uvars

\* Message::OpenProject(project).
HandleOpenProject ==
    /\ Received("OpenProject")
    /\ base' = [base EXCEPT !.project = TRUE, !.busy = FALSE]
    /\ UNCHANGED <<pkind, patch, merged, ppc>>
    /\ UNCHANGED uvars

\* Message::OpenResource(path).
HandleOpenResource ==
    /\ Received("OpenResource")
    /\ LET started == Editor_do_task(base, patch, "LoadResource")
       IN  IF base.project
           THEN base' = started.app /\ patch' = started.threads
           ELSE UNCHANGED <<base, patch>>
    /\ UNCHANGED <<pkind, merged, ppc>>
    /\ UNCHANGED uvars

\* Message::LoadResource(path, res).
HandleLoadResource ==
    /\ Received("LoadResource")
    /\ base' = [base EXCEPT !.tabs = @ + 1, !.busy = FALSE]
    /\ UNCHANGED <<pkind, patch, merged, ppc>>
    /\ UNCHANGED uvars

\* App::handle_update on the message at the head of the channel.
Editor_handle_update ==
    \/ HandleError
    \/ \E picked \in BOOLEAN : HandleImportMod(picked)
    \/ HandleOpenProject
    \/ HandleOpenResource
    \/ HandleLoadResource

EditorTaskEnds == \E i \in 1..MaxClicks, outcome \in {"ok", "err", "panic"} :
                      TaskEnds(i, outcome)

EditorNext ==
    \/ ClickOpenProject
    \/ \E message \in {"ImportMod", "OpenResource"} : Click(message)
    \/ EditorTaskEnds
    \/ Editor_handle_update

SpecEditor == EditorInit /\ [][EditorNext]_vars

\* eframe calls update, and with it handle_update, for every frame, and a
\* thread that was started runs to its end.
FairSpecEditor ==
    /\ SpecEditor
    /\ WF_vars(Editor_handle_update)
    /\ WF_vars(EditorTaskEnds)

(***************************************************************************)
(* The mod manager's window: messages and background tasks (gui.rs).  The  *)
(* app's fields are held in base, its channel in other, the worker threads *)
(* that have not sent their message yet in patch and the number of         *)
(* messages the user has caused in merged.  A mod is known by its hash;    *)
(* its manifest is readable and names the one file of that mod.  The Log   *)
(* messages are followed in SpecLog, the selection stays the one made by   *)
(* App::new, no mod has options and the sort stays by priority.            *)
(***************************************************************************)
\* The mods there are.
MaxInstalled == 2

\* The messages the user causes.
MaxInputs == 3

Hashes == 1..MaxInstalled

\* Mod::manifest and Mod::manifest_with_options: the files of the mod.
Mod_manifest(h) == {h}

\* Manifest::extend over the manifests of the mods given.
ManifestsOf(list) == UNION {Mod_manifest(list[i]) : i \in DOMAIN list}

\* A message: its variant, with the mods, the index and the flag it carries;
\* applied is the manifest that the deploy which sent ClearChanges was given.
Message(type) ==
    [type |-> type, mods |-> <<>>, n |-> 0, flag |-> FALSE, applied |-> {}]

\* App::modal_open.
modal_open(app) == app.error \/ app.busy

\* App::do_update.
do_update(channel, message) == Append(channel, message)

\* App::do_task: busy is set and a thread is started.
do_task(app, threads, task) ==
    [app |-> [app EXCEPT !.busy = TRUE], threads |-> Append(threads, task)]

\* The message a task gives when it succeeds; apply(None) deploys every file.
TaskMessage(task) ==
    CASE task.type = "OpenMod" ->
             [Message("HandleMod") EXCEPT !.mods = task.mods]
      [] task.type = "InstallMod" ->
             [Message("AddMod") EXCEPT !.mods = task.mods]
      [] task.type = "UninstallMods" ->
             [Message("RemoveMods") EXCEPT !.mods = task.mods]
      [] task.type = "Apply" ->
             [Message("ClearChanges") EXCEPT !.applied = task.applied]
      [] task.type = "Remerge" ->
             [Message("ClearChanges") EXCEPT !.applied = Hashes]

GuiInit ==
    /\ UnpackOff
    /\ pkind = "gui"
    /\ base \in {[mods |-> list,
                  displayed_mods |-> list,
                  enabled |-> {list[i] : i \in DOMAIN list},
                  selected |-> IF list = <<>> THEN <<>> ELSE <<list[1]>>,
                  dirty |-> {},
                  busy |-> FALSE,
                  error |-> FALSE] : list \in Arrangements(Hashes)}
    /\ other = <<>>
    /\ patch = <<>>
    /\ merged = 0
    /\ ppc = "run"

GuiRuns == pkind = "gui" /\ ppc = "run"

\* The messages the window's controls send while no modal is open: the
\* Apply button is there while dirty is not empty, a mod is dragged only in
\* a list that has one, and the mod opened is one not yet in the list.
UserMessages(app) ==
    {[Message("ToggleMods") EXCEPT !.flag = f] : f \in BOOLEAN}
        \cup {[Message("MoveSelected") EXCEPT !.n = d] :
                 d \in {k \in 0..MaxInstalled : k < Len(app.mods)}}
        \cup {[Message("OpenMod") EXCEPT !.mods = <<h>>] :
                 h \in {k \in Hashes : ~contains(app.mods, k)}}
        \cup {Message("Apply") : x \in {p \in {1} : app.dirty # {}}}
        \cup {Message("Remerge"), Message("UninstallMods")}

UserSends(message) ==
    /\ GuiRuns
    /\ ~modal_open(base)
    /\ merged < MaxInputs
    /\ message \in UserMessages(base)
    /\ merged' = merged + 1
    /\ other' = do_update(other, message)
    /\ UNCHANGED <<pkind, base, patch, ppc>>
    /\ UNCHANGED uvars

\* The OK button of the error window.
UserClosesError ==
    /\ GuiRuns
    /\ base.error
    /\ \A i \in DOMAIN other : other[i].type # "CloseError"
    /\ other' = do_update(other, Message("CloseError"))
    /\ UNCHANGED <<pkind, base, patch, merged, ppc>>
    /\ UNCHANGED uvars

\* A worker thread comes to its end: it sends the task's message, or
\* Message::Error.
ThreadEnds(i, ok) ==
    /\ GuiRuns
    /\ i \in DOMAIN patch
    /\ other' = do_update(other, IF ok THEN TaskMessage(patch[i])
                                 ELSE Message("Error"))
    /\ patch' = Without(patch, i)
    /\ UNCHANGED <<pkind, base, merged, ppc>>
    /\ UNCHANGED uvars

\* handle_update takes the message at the head of the channel.
Takes(type) ==
    /\ GuiRuns
    /\ other # <<>>
    /\ Head(other).type = type

\* What a handler leaves: the app, the channel after the messages it sent,
\* and the threads.
Leaves(app, sent, threads) ==
    /\ base' = app
    /\ other' = Tail(other) \o sent
    /\ patch' = threads
    /\ UNCHANGED <<pkind, merged, ppc>>
    /\ UNCHANGED uvars

Starts(task) ==
    LET started == do_task(base, patch, task)
    IN  Leaves(started.app, <<>>, started.threads)

Task(type) == [type |-> type, mods |-> <<>>, applied |-> {}]

\* Message::ClearChanges.
HandleClearChanges ==
    /\ Takes("ClearChanges")
    /\ Leaves([base EXCEPT !.busy = FALSE, !.dirty = {}],
              <<Message("RefreshModsDisplay")>>, patch)

\* Message::RefreshModsDisplay.
HandleRefreshModsDisplay ==
    /\ Takes("RefreshModsDisplay")
    /\ Leaves(base, <<Message("ChangeSort")>>, patch)

\* Message::ChangeSort(sort, rev), for Sort::Priority and no reversal.
HandleChangeSort ==
    /\ Takes("ChangeSort")
    /\ Leaves([base EXCEPT !.displayed_mods = base.mods], <<>>, patch)

\* Message::CloseError.
HandleCloseError ==
    /\ Takes("CloseError")
    /\ Leaves([base EXCEPT !.error = FALSE], <<>>, patch)

\* Message::MoveSelected(dest_index) in the window.
HandleMoveSelectedInList(overflow_checks) ==
    /\ Takes("MoveSelected")
    /\ LET moved == MoveSelected(base.mods, base.selected, Head(other).n,
                                 overflow_checks)
       IN  IF ~IsOk(moved)
           THEN /\ ppc' = "panicked"
                /\ other' = Tail(other)
                /\ UNCHANGED <<pkind, base, patch, merged>>
                /\ UNCHANGED uvars
           ELSE IF Len(base.selected) = Len(base.mods)
           THEN Leaves(base, <<>>, patch)
           ELSE Leaves([base EXCEPT
                            !.mods = moved.ok,
                            !.dirty = @ \cup ManifestsOf(base.selected)],
                       <<Message("RefreshModsDisplay")>>, patch)

\* Message::OpenMod(path).
HandleOpenMod ==
    /\ Takes("OpenMod")
    /\ Starts([Task("OpenMod") EXCEPT !.mods = Head(other).mods])

\* Message::HandleMod(mod_), for a mod without options.
HandleHandleMod ==
    /\ Takes("HandleMod")
    /\ Leaves([base EXCEPT !.busy = FALSE],
              <<[Message("InstallMod") EXCEPT !.mods = Head(other).mods]>>,
              patch)

\* Message::InstallMod(mod_).
HandleInstallMod ==
    /\ Takes("InstallMod")
    /\ Starts([Task("InstallMod") EXCEPT !.mods = Head(other).mods])

\* Message::UninstallMods(None): the selected mods.
HandleUninstallMods ==
    /\ Takes("UninstallMods")
    /\ Starts([Task("UninstallMods") EXCEPT !.mods = base.selected])

\* Message::ToggleMods(None, enabled): the selected mods.
HandleToggleMods ==
    /\ Takes("ToggleMods")
    /\ LET chosen == {base.selected[i] : i \in DOMAIN base.selected}
       IN  Leaves([base EXCEPT
                       !.enabled = IF Head(other).flag
                                   THEN @ \cup chosen
                                   ELSE @ \ chosen,
                       !.dirty = @ \cup ManifestsOf(base.selected)],
                  <<Message("RefreshModsDisplay")>>, patch)

\* Message::AddMod(mod_).
HandleAddMod ==
    /\ Takes("AddMod")
    /\ Leaves([base EXCEPT
                   !.dirty = @ \cup ManifestsOf(Head(other).mods),
                   !.mods = @ \o Head(other).mods,
                   !.enabled = @ \cup {Head(other).mods[1]},
                   !.busy = FALSE],
              <<Message("RefreshModsDisplay")>>, patch)

\* Message::RemoveMods(mods).
HandleRemoveMods ==
    /\ Takes("RemoveMods")
    /\ LET gone == Head(other).mods
       IN  Leaves([base EXCEPT
                       !.mods = SelectSeq(@, LAMBDA m : ~contains(gone, m)),
                       !.selected = SelectSeq(@, LAMBDA m : ~contains(gone, m)),
                       !.dirty = @ \cup ManifestsOf(gone),
                       !.busy = FALSE],
                  <<Message("RefreshModsDisplay")>>, patch)

\* Message::Apply: the task takes a copy of the mod list and of dirty.
HandleApply ==
    /\ Takes("Apply")
    /\ Starts([Task("Apply") EXCEPT !.mods = base.mods,
                                    !.applied = base.dirty])

\* Message::Remerge.
HandleRemerge ==
    /\ Takes("Remerge")
    /\ Starts(Task("Remerge"))

\* Message::Error(error).
HandleGuiError ==
    /\ Takes("Error")
    /\ Leaves([base EXCEPT !.busy = FALSE, !.error = TRUE], <<>>, patch)

\* App::handle_update.
handle_update ==
    \/ HandleClearChanges
    \/ HandleRefreshModsDisplay
    \/ HandleChangeSort
    \/ HandleCloseError
    \/ \E overflow_checks \in BOOLEAN :
           HandleMoveSelectedInList(overflow_checks)
    \/ HandleOpenMod
    \/ HandleHandleMod
    \/ HandleInstallMod
    \/ HandleUninstallMods
    \/ HandleToggleMods
    \/ HandleAddMod
    \/ HandleRemoveMods
    \/ HandleApply
    \/ HandleRemerge
    \/ HandleGuiError

GuiNext ==
    \/ \E message \in UserMessages(base) : UserSends(message)
    \/ UserClosesError
    \/ \E i \in 1..(MaxInputs + 1), ok \in BOOLEAN : ThreadEnds(i, ok)
    \/ handle_update

SpecGui == GuiInit /\ [][GuiNext]_vars

(***************************************************************************)
(* Claims about the parameter algebra.                                     *)
(***************************************************************************)
PObjMerged == ppc = "merged" /\ pkind = "pobj"

PListMerged == ppc = "merged" /\ pkind = "plist"

\* Every key of b is a key of o, at every nesting level both reach.
RECURSIVE NoDeletion(_, _)
NoDeletion(b, o) ==
    /\ Keys(b.objects) \subseteq Keys(o.objects)
    /\ \A k \in Keys(b.objects) :
           Keys(Get(b.objects, k)) \subseteq Keys(Get(o.objects, k))
    /\ Keys(b.lists) \subseteq Keys(o.lists)
    /\ \A k \in Keys(b.lists) : NoDeletion(Get(b.lists, k), Get(o.lists, k))

\* C1 (as stated): for all parameter objects base and other,
\* merge_pobj(base, diff_pobj(base, other)) equals other as a mapping.
C1_Reconstruction_AllInputs ==
    PObjMerged => ToMap(merged) = ToMap(other)

\* C1 (amended): when every key of base is also a key of other,
\* merge_pobj(base, diff_pobj(base, other)) equals other as a mapping.
C1_Reconstruction ==
    (PObjMerged /\ Keys(base) \subseteq Keys(other))
        => ToMap(merged) = ToMap(other)

\* C1 witness: a base whose key is changed by other, which also adds a key,
\* has been diffed and merged back.
C1_Witness ==
    /\ PObjMerged
    /\ Keys(base) \subseteq Keys(other)
    /\ Keys(other) # Keys(base)
    /\ \E k \in Keys(base) : Get(base, k) # Get(other, k)
    /\ Len(patch) = 2
    /\ ToMap(merged) = ToMap(other)

\* C2 (as stated): for all parameter lists base and other,
\* merge_plist(base, diff_plist(base, other)) equals other at every level.
C2_Reconstruction_AllInputs ==
    PListMerged => PListEq(merged, other)

\* C2 (amended): when other has every list key, object key and parameter key
\* that base has, at every nesting level, merge_plist(base, diff_plist(base,
\* other)) equals other at every level, in objects and in lists.
C2_Reconstruction ==
    (PListMerged /\ NoDeletion(base, other)) => PListEq(merged, other)

\* C2 witness: a nested list differs two levels down in one parameter of an
\* object both sides have, and the merge has rebuilt other.
C2_Witness ==
    /\ PListMerged
    /\ NoDeletion(base, other)
    /\ ~PListEq(base, other)
    /\ HasKey(base.lists, 1) /\ HasKey(Get(base.lists, 1).lists, 1)
    /\ LET b2 == Get(Get(base.lists, 1).lists, 1)
           o2 == Get(Get(other.lists, 1).lists, 1)
       IN  /\ HasKey(b2.objects, 1)
           /\ Len(Get(b2.objects, 1)) = 2
           /\ ~PObjEq(Get(b2.objects, 1), Get(o2.objects, 1))
    /\ PListEq(merged, other)

(***************************************************************************)
(* Claims about the merge orchestrator.                                    *)
(***************************************************************************)
\* The mods whose get_data returns a version of p, by position in the list.
Providers(p) == {i \in DOMAIN mods : get_data(mods[i], p).ok}

ProvidedRes(i, p) == get_data(mods[i], p).data

Last(S) == CHOOSE i \in S : \A k \in S : k <= i

\* The key-wise overlay of the providers' parameter objects onto bv: the
\* value of a key is that of the last provider that has it, else bv's.
OverlayKeys(bv, p) ==
    Keys(bv) \cup UNION {Keys(ProvidedRes(i, p).val) : i \in Providers(p)}

OverlayVal(bv, p, k) ==
    LET S == {i \in Providers(p) : HasKey(ProvidedRes(i, p).val, k)}
    IN  IF S = {} THEN Get(bv, k) ELSE Get(ProvidedRes(Last(S), p).val, k)

Overlay(bv, p) == [k \in OverlayKeys(bv, p) |-> OverlayVal(bv, p, k)]

MergeableBuilds ==
    {r \in builds : Kind(r.file) = "Mergeable" /\ r.base.kind # "None"}

\* C3: a Mergeable build that has a dump version returns the left fold of
\* merge over the providing mods in list order, starting from the dump
\* version: key by key, the last provider in the list that sets a key
\* decides it, otherwise the dump version does. With A and B setting key 1,
\* [A, B] yields B's value and [B, A] yields A's.
C3_FoldInPriorityOrder ==
    /\ \A r \in MergeableBuilds :
           /\ r.base = DumpRes(r.file)
           /\ ToMap(r.data.aamp) = Overlay(r.base.val, r.file)
    /\ \A r \in MergeableBuilds :
           /\ (r.file = "Y" /\ mods = <<ModA, ModB>>) => Get(r.data.aamp, 1) = 9
           /\ (r.file = "Y" /\ mods = <<ModB, ModA>>) => Get(r.data.aamp, 1) = 7

\* C3 witness: a build with a dump version and two providers that set the
\* same key to different values has returned the later one's value.
C3_Witness ==
    \E r \in MergeableBuilds :
        \E i, k \in Providers(r.file) :
            /\ i < k
            /\ \E key \in Keys(ProvidedRes(i, r.file).val) :
                   /\ HasKey(ProvidedRes(k, r.file).val, key)
                   /\ HasKey(r.base.val, key)
                   /\ Get(ProvidedRes(i, r.file).val, key)
                          # Get(ProvidedRes(k, r.file).val, key)
                   /\ Get(r.data.aamp, key) = Get(ProvidedRes(k, r.file).val, key)

BinaryBuilds == {r \in builds : Kind(r.file) = "Binary"}

\* C4: a Binary build returns the bytes of the last mod in the list that
\* provides the path, with or without a dump version; the dump's bytes
\* when no mod provides it.
C4_BinaryLastWriterWins ==
    \A r \in BinaryBuilds :
        LET P == Providers(r.file)
        IN  IF P # {}
            THEN r.data = [raw |-> ProvidedRes(Last(P), r.file).data]
            ELSE /\ r.base.kind = "Binary"
                 /\ r.base = DumpRes(r.file)
                 /\ r.data = [raw |-> DumpRes(r.file).data]

\* C4 witness: a build with a dump version and two providers of different
\* bytes has returned the later provider's bytes.
C4_Witness ==
    \E r \in BinaryBuilds :
        \E i, k \in Providers(r.file) :
            /\ i < k
            /\ r.base.kind = "Binary"
            /\ ProvidedRes(i, r.file).data # ProvidedRes(k, r.file).data
            /\ k = Last(Providers(r.file))
            /\ r.data = [raw |-> ProvidedRes(k, r.file).data]

SarcBuilds == {r \in builds : Kind(r.file) = "Sarc"}

\* The child paths of the dump version and of every provider's version.
UnionOfChildren(r) ==
    (IF r.base.kind = "None" THEN {} ELSE r.base.files)
        \cup UNION {ProvidedRes(i, r.file).files : i \in Providers(r.file)}

\* The dump's version of child c of container x, if the dump has one.
DumpChild(x, c) ==
    IF dump[x] = "ok" /\ c \in DumpChildren(x) THEN DumpRes(c) ELSE NoRes

Uncompressed(d, c) == IF Yaz0Path(c) THEN d.yaz0 ELSE d

\* Child c, held as d in the output container of x, is the full merge of
\* its dump version and all mod versions.
ChildIsFullMerge(x, c, d) ==
    LET dv == DumpChild(x, c)
        P == Providers(c)
        u == Uncompressed(d, c)
    IN  CASE Kind(c) = "Binary" ->
                u = [raw |-> IF P # {} THEN ProvidedRes(Last(P), c).data
                             ELSE dv.data]
          [] Kind(c) = "Mergeable" ->
                /\ ToMap(u.aamp) =
                       Overlay(IF dv.kind = "None" THEN <<>> ELSE dv.val, c)
                /\ P = {} => u = into_binary(dv.val)
          [] OTHER -> TRUE

\* C5: the output container of a Sarc build holds exactly the union of the
\* child paths of the dump version and of the mods' versions, each child
\* once, and each child is the full merge of its dump version and all mod
\* versions; a child no mod touches is its dump version.
C5_SarcUnionAndRecursion ==
    \A r \in SarcBuilds :
        LET out == r.data.sarc
        IN  /\ {out[i][1] : i \in DOMAIN out} = UnionOfChildren(r)
            /\ Len(out) = Cardinality(UnionOfChildren(r))
            /\ \A i \in DOMAIN out : ChildIsFullMerge(r.file, out[i][1], out[i][2])

\* C5 witness: a container was built whose mods add a child the dump lacks
\* and modify a child of the dump, and which has a child no mod touches.
C5_Witness ==
    \E r \in SarcBuilds :
        /\ r.base.kind = "Sarc"
        /\ UnionOfChildren(r) # r.base.files
        /\ \E c \in r.base.files : Kind(c) = "Mergeable" /\ Providers(c) # {}
        /\ \E i \in DOMAIN r.data.sarc :
               /\ r.data.sarc[i][1] \in r.base.files
               /\ Providers(r.data.sarc[i][1]) = {}
               /\ r.data.sarc[i][2] = [raw |-> DumpRes(r.data.sarc[i][1]).data]

\* C6: when unpack returns an error, no output file of the run is present
\* in the output directory.
C6_NoPartialOutput ==
    result.status = "err" => \A j \in JobIds : outFiles[j] = NoData

\* A location of mod m that holds p but cannot be read or decoded.
ModReadFails(m, p) ==
    \/ m.files[p].kind \in {"readerr", "corrupt"}
    \/ \E k \in DOMAIN m.options : m.options[k][p].kind \in {"readerr", "corrupt"}

\* Reading p fails in the dump or in a mod with an I/O or decompression
\* error.
ReadFails(p) ==
    \/ dump[p] = "ioerr"
    \/ \E i \in DOMAIN mods : ModReadFails(mods[i], p)

\* C7: a path whose read fails in the dump or in a mod is never built: its
\* build_file returns no data, and unpack does not return Ok.
C7_ReadErrorsPropagate ==
    /\ \A r \in builds : ~ReadFails(r.file)
    /\ result.status = "ok" =>
           \A j \in JobIds : jobs[j].pc # "unused" => ~ReadFails(j[2])

\* The files the claim names for a root.
ClaimedFiles(root) ==
    IF manifest.some
    THEN IF root = "content" THEN manifest.content_files ELSE manifest.aoc_files
    ELSE IF root = "content"
         THEN UNION {mods[i].content_files : i \in DOMAIN mods}
         ELSE UNION {mods[i].aoc_files : i \in DOMAIN mods}

\* C8: unpack writes a file below a root only for a path the explicit
\* manifest names for that root, or without one the union of the mods'
\* manifests, never twice; when it returns Ok it has written every such
\* path exactly once below its root.
C8_BuildsExactlyTheManifest ==
    \A j \in JobIds :
        /\ writes[j] <= 1
        /\ writes[j] = 1 <=> outFiles[j] # NoData
        /\ writes[j] = 1 => j[2] \in ClaimedFiles(j[1])
        /\ result.status = "ok" => (writes[j] = 1 <=> j[2] \in ClaimedFiles(j[1]))

\* C8 witness: unpack returned Ok under an explicit manifest that differs
\* from the mods' manifests, having written content and add-on files.
C8_Witness ==
    /\ result.status = "ok"
    /\ manifest.some
    /\ mods # <<>>
    /\ manifest.content_files # UNION {mods[i].content_files : i \in DOMAIN mods}
    /\ manifest.aoc_files # UNION {mods[i].aoc_files : i \in DOMAIN mods}
    /\ \E j \in JobIds : j[1] = "content" /\ writes[j] = 1
    /\ \E j \in JobIds : j[1] = "aoc" /\ writes[j] = 1

ClaimedJobs == {j \in JobIds : j[2] \in ClaimedFiles(j[1])}

\* The data the outermost build_file call of a build returned.
BuiltData(j) == (CHOOSE r \in builds : r.job = j /\ r.depth = 1).data

\* C9: the map unpack returns on success has one entry per touched path of
\* either root, keyed by its canonical path, whose value is the size
\* function of the built data and that canonical path, and no other entry.
C9_SizeTableMap ==
    result.status = "ok" =>
        /\ DOMAIN result.map = {canonicalize(j[1], j[2]) : j \in ClaimedJobs}
        /\ Cardinality(DOMAIN result.map) = Cardinality(ClaimedJobs)
        /\ \A j \in ClaimedJobs :
               result.map[canonicalize(j[1], j[2])] =
                   calc_size(BuiltData(j), canonicalize(j[1], j[2]))

\* C9 witness: a returned map with a size, a None and an add-on entry.
C9_Witness ==
    /\ result.status = "ok"
    /\ \E k \in DOMAIN result.map : result.map[k].some
    /\ \E k \in DOMAIN result.map : ~result.map[k].some
    /\ \E j \in ClaimedJobs :
           j[1] = "aoc" /\ canonicalize(j[1], j[2]) \in DOMAIN result.map
    /\ \E f \in Paths : <<"content", f>> \in ClaimedJobs /\ <<"aoc", f>> \in ClaimedJobs

\* build_file run alone from cache c until it returns: whether it returned
\* data, the data, and the cache it leaves.
RECURSIVE BuildAlone(_, _)
RECURSIVE BuildChildrenAlone(_, _, _)
BuildAlone(c, file) ==
    LET g == get_file(c, dump, file)
        c1 == IF g.ok THEN insert_processed(g.cache, g.processed) ELSE c
        b == IF g.ok THEN g.res ELSE get_resource(c, file).res
        r == Reduce(mods, [NewFrame(file) EXCEPT !.base = b])
    IN  CASE r.status = "err" -> [ok |-> FALSE, data |-> NoData, cache |-> c1]
          [] r.status = "data" -> [ok |-> TRUE, data |-> r.data, cache |-> c1]
          [] OTHER -> BuildChildrenAlone(c1, InOrder(r.files), <<>>)

BuildChildrenAlone(c, todo, built) ==
    IF todo = <<>> THEN [ok |-> TRUE, data |-> to_binary(built), cache |-> c]
    ELSE LET k == BuildAlone(c, Head(todo))
         IN  IF ~k.ok THEN [ok |-> FALSE, data |-> NoData, cache |-> k.cache]
             ELSE BuildChildrenAlone(k.cache, Tail(todo),
                                     add_file(built, Head(todo), k.data))

\* The builds of the run in the order of the two sorted sets, content
\* before add-on content.
JobsInOrder ==
    LET cs == InOrder(ClaimedFiles("content"))
        as == InOrder(ClaimedFiles("aoc"))
    IN  [i \in 1..Len(cs) |-> <<"content", cs[i]>>]
            \o [i \in 1..Len(as) |-> <<"aoc", as[i]>>]

RECURSIVE RunAlone(_, _, _)
RunAlone(c, js, out) ==
    IF js = <<>> THEN [ok |-> TRUE, out |-> out]
    ELSE LET b == BuildAlone(c, Head(js)[2])
         IN  IF ~b.ok THEN [ok |-> FALSE, out |-> out]
             ELSE RunAlone(b.cache, Tail(js),
                           [out EXCEPT ![Head(js)] = compress_if(b.data, Head(js)[2])])

\* The output of the run whose builds execute one after another.
OneAfterAnother ==
    RunAlone([p \in Paths |-> NoRes], JobsInOrder, [j \in JobIds |-> NoData])

\* C10: whatever the interleaving of the builds and of their cache
\* accesses, a run that returns Ok has written, for every touched path,
\* the bytes the run of the same dump, mod list and manifest writes when
\* its builds execute one after another.
C10_InterleavingIndependent ==
    result.status = "ok" =>
        /\ OneAfterAnother.ok
        /\ \A j \in JobIds : outFiles[j] = OneAfterAnother.out[j]

\* The run returned Ok with the output of the builds executed one after
\* another, on inputs that make a nested file a touched path of its own.
C10_SequentialOutcome ==
    /\ result.status = "ok"
    /\ OneAfterAnother.ok
    /\ \A j \in JobIds : outFiles[j] = OneAfterAnother.out[j]
    /\ \E j \in ClaimedJobs : dump[j[2]] = "absent" /\ DumpChild("X", j[2]) # NoRes

(***************************************************************************)
(* Claims about the merge of a patch that is not the diff of its base.     *)
(***************************************************************************)
PObjApplied == ppc = "applied" /\ pkind = "pobj"

\* C12: merge_pobj(base, patch) has exactly the keys of base and of patch;
\* every key of patch has patch's value, and every key of base that patch
\* lacks keeps base's value.
C12_PatchWins ==
    PObjApplied =>
        /\ Keys(merged) = Keys(base) \cup Keys(patch)
        /\ \A k \in Keys(patch) : Get(merged, k) = Get(patch, k)
        /\ \A k \in Keys(base) \ Keys(patch) : Get(merged, k) = Get(base, k)

\* C12 witness: base and patch give different values to a key they share,
\* base has a key of its own, and the merge took the patch's value.
C12_Witness ==
    /\ PObjApplied
    /\ \E k \in Keys(base) \cap Keys(patch) :
           Get(base, k) # Get(patch, k) /\ Get(merged, k) = Get(patch, k)
    /\ \E k \in Keys(base) \ Keys(patch) : Get(merged, k) = Get(base, k)

\* Every object key, parameter key and list key of b is one of m, at every
\* nesting level.
RECURSIVE KeysKept(_, _)
KeysKept(b, m) ==
    /\ Keys(b.objects) \subseteq Keys(m.objects)
    /\ \A k \in Keys(b.objects) :
           Keys(Get(b.objects, k)) \subseteq Keys(Get(m.objects, k))
    /\ Keys(b.lists) \subseteq Keys(m.lists)
    /\ \A k \in Keys(b.lists) : KeysKept(Get(b.lists, k), Get(m.lists, k))

\* C13: whatever patches have been folded into base with merge_pobj or
\* merge_plist, every key of base is still there: the parameter keys of an
\* object, and the object keys and list keys of a list at every level.
C13_NoKeyRemoved ==
    ppc = "fold" =>
        IF pkind = "pobj" THEN Keys(base) \subseteq Keys(merged)
        ELSE KeysKept(base, merged)

\* C13 witness: a list with a child list and an object of two parameters
\* has had the greatest number of patches folded in, which changed it.
C13_Witness ==
    /\ ppc = "fold" /\ pkind = "plist"
    /\ other = MaxPatches
    /\ HasKey(base.lists, 1)
    /\ HasKey(Get(base.lists, 1).objects, 1)
    /\ Len(Get(Get(base.lists, 1).objects, 1)) = 2
    /\ ~PListEq(merged, base)
    /\ KeysKept(base, merged)

\* The patch has no entry under the emptiness rule of the kind.
IsEmptyPatch(kind, d) ==
    CASE kind = "pobj" -> d = <<>>
      [] kind = "plist" -> d.objects = <<>> /\ d.lists = <<>>
      [] kind = "byml" -> IsHash(d) /\ DOMAIN d.hash = {}
      [] kind = "index" -> DOMAIN d = {}

Diffed == ppc \in {"diffed", "merged"}

\* C14: the diff of a value with itself is empty: diff_pobj gives no key,
\* diff_plist no object and no list, diff_byml_shallow an empty hash and
\* simple_index_diff an empty map.
C14_SelfDiffEmpty ==
    (Diffed /\ base = other) => IsEmptyPatch(pkind, patch)

\* C14 witness: a list with an object and a child list has been diffed
\* with itself.
C14_Witness ==
    /\ Diffed /\ pkind = "plist"
    /\ base = other
    /\ base.objects # <<>> /\ base.lists # <<>>
    /\ IsEmptyPatch(pkind, patch)

\* C15: merging an empty patch gives the base back: merge_pobj with an
\* object without keys, merge_plist with a list without objects and lists,
\* merge_byml_shallow with an empty hash and simple_index_merge with an
\* empty map.
C15_EmptyPatchIdentity ==
    (ppc \in {"merged", "applied"} /\ IsEmptyPatch(pkind, patch))
        => merged = base

\* C15 witness: an index map with an entry has been merged with the empty
\* map, taken as the patch.
C15_Witness ==
    /\ ppc = "applied" /\ pkind = "index"
    /\ DOMAIN base # {}
    /\ IsEmptyPatch(pkind, patch)
    /\ merged = base

BymlMerged == ppc = "merged" /\ pkind = "byml"

\* C18 (as stated): for all hashes base and other,
\* merge_byml_shallow(base, diff_byml_shallow(base, other)) equals other,
\* also when other lacks keys of base.
C18_Reconstruction_AllInputs ==
    BymlMerged => merged = other

\* C18 (amended): merge_byml_shallow(base, diff_byml_shallow(base, other))
\* has the entries of other and, for every key of base that other lacks,
\* an entry whose value is Null; it equals other when other has every key
\* of base.
C18_Reconstruction ==
    BymlMerged =>
        /\ merged = Hash([k \in DOMAIN base.hash \cup DOMAIN other.hash |->
                             IF k \in DOMAIN other.hash THEN other.hash[k]
                             ELSE Null])
        /\ DOMAIN base.hash \subseteq DOMAIN other.hash => merged = other

\* C18 witness: other changes a key of base and lacks another, which the
\* merged hash holds with Null.
C18_Witness ==
    /\ BymlMerged
    /\ \E k \in DOMAIN base.hash \cap DOMAIN other.hash :
           /\ base.hash[k] # other.hash[k]
           /\ merged.hash[k] = other.hash[k]
    /\ \E k \in DOMAIN base.hash \ DOMAIN other.hash :
           base.hash[k] # Null /\ merged.hash[k] = Null

IndexMerged == ppc = "merged" /\ pkind = "index"

\* C19 (as stated): for all index maps base and other,
\* simple_index_merge(base, simple_index_diff(base, other)) equals other,
\* also when other lacks indices of base.
C19_Reconstruction_AllInputs ==
    IndexMerged => merged = other

\* C19 (amended): simple_index_merge(base, simple_index_diff(base, other))
\* has the entries of other and keeps the entry of base at every index
\* other lacks; it equals other when other has every index of base.
C19_Reconstruction ==
    IndexMerged =>
        /\ merged = [i \in DOMAIN base \cup DOMAIN other |->
                        IF i \in DOMAIN other THEN other[i] ELSE base[i]]
        /\ DOMAIN base \subseteq DOMAIN other => merged = other

\* C19 witness: other changes one index of base and adds another, and the
\* merge has rebuilt other.
C19_Witness ==
    /\ IndexMerged
    /\ DOMAIN base \subseteq DOMAIN other /\ DOMAIN base # DOMAIN other
    /\ \E i \in DOMAIN base : base[i] # other[i]
    /\ merged = other

Composed == ppc = "composed"

\* Equality of the kind, as a map at every level.
KindEq(a, b) == IF pkind = "pobj" THEN PObjEq(a, b) ELSE PListEq(a, b)

\* b has no key that o lacks.
NothingDropped(b, o) ==
    IF pkind = "pobj" THEN Keys(b) \subseteq Keys(o) ELSE NoDeletion(b, o)

\* C20 (as stated): for all x, y, z, merging diff(x, y) and then
\* diff(y, z) into x gives z.
C20_Composition_AllInputs ==
    Composed => KindEq(merged, other[2])

\* C20 (amended): when z has every key that x has and every key that y has,
\* at every nesting level, merging diff(x, y) and then diff(y, z) into x
\* gives z.
C20_Composition ==
    (Composed /\ NothingDropped(base, other[2])
              /\ NothingDropped(other[1], other[2]))
        => KindEq(merged, other[2])

\* C20 witness: three lists that differ pairwise, each keeping the keys of
\* the one before, were composed into the last.
C20_Witness ==
    /\ Composed /\ pkind = "plist"
    /\ NoDeletion(base, other[1]) /\ NoDeletion(other[1], other[2])
    /\ ~PListEq(base, other[1]) /\ ~PListEq(other[1], other[2])
    /\ ~PListEq(base, other[2])
    /\ patch[1].lists # <<>> /\ patch[2].lists # <<>>
    /\ PListEq(merged, other[2])

\* The value of key k in the overlay of c onto b onto a.
OverlayOf3(a, b, c, k) ==
    IF HasKey(c, k) THEN Get(c, k)
    ELSE IF HasKey(b, k) THEN Get(b, k) ELSE Get(a, k)

\* C21 (as stated): merge_pobj(merge_pobj(a, diff_pobj(a, b)),
\* diff_pobj(a, c)) has, for every key, c's value if c has the key, else
\* b's if b has it, else a's.
C21_Ordering_AllInputs ==
    Composed =>
        /\ Keys(merged) = Keys(base) \cup Keys(other[1]) \cup Keys(other[2])
        /\ \A k \in Keys(merged) :
               Get(merged, k) = OverlayOf3(base, other[1], other[2], k)

\* c changes key k of a: c has k and a lacks it or holds another value.
Changes(a, c, k) == HasKey(c, k) /\ (~HasKey(a, k) \/ Get(a, k) # Get(c, k))

\* C21 (amended): merge_pobj(merge_pobj(a, diff_pobj(a, b)),
\* diff_pobj(a, c)) has the keys of a, b and c, and for every key c's value
\* if c changes the key with respect to a, else b's value if b has the
\* key, else a's.
C21_Ordering ==
    Composed =>
        /\ Keys(merged) = Keys(base) \cup Keys(other[1]) \cup Keys(other[2])
        /\ \A k \in Keys(merged) :
               Get(merged, k) =
                   IF Changes(base, other[2], k) THEN Get(other[2], k)
                   ELSE IF HasKey(other[1], k) THEN Get(other[1], k)
                   ELSE Get(base, k)

\* C21 witness: b and c change the same key of a differently and c's value
\* is in the result, while another key that only b changes has b's value.
C21_Witness ==
    /\ Composed
    /\ \E k \in Keys(merged) :
           /\ Changes(base, other[1], k) /\ Changes(base, other[2], k)
           /\ Get(other[1], k) # Get(other[2], k)
           /\ Get(merged, k) = Get(other[2], k)
    /\ \E k \in Keys(base) :
           /\ Changes(base, other[1], k) /\ ~Changes(base, other[2], k)
           /\ Get(merged, k) = Get(other[1], k)

\* d holds exactly the keys of o that b lacks or holds with another value,
\* each with o's value.
PObjEmitted(b, o, d) ==
    /\ Keys(d) = {k \in Keys(o) : ~HasKey(b, k) \/ Get(b, k) # Get(o, k)}
    /\ \A k \in Keys(d) : Get(d, k) = Get(o, k)

\* d holds exactly the object keys and list keys of o that b lacks or holds
\* with another value: o's whole value for a key b lacks, and for a key of
\* both a value that obeys the same rule one level down.
RECURSIVE PListEmitted(_, _, _)
PListEmitted(b, o, d) ==
    /\ Keys(d.objects) =
           {k \in Keys(o.objects) :
               ~HasKey(b.objects, k) \/ ~PObjEq(Get(b.objects, k), Get(o.objects, k))}
    /\ \A k \in Keys(d.objects) :
           IF HasKey(b.objects, k)
           THEN PObjEmitted(Get(b.objects, k), Get(o.objects, k), Get(d.objects, k))
           ELSE Get(d.objects, k) = Get(o.objects, k)
    /\ Keys(d.lists) =
           {k \in Keys(o.lists) :
               ~HasKey(b.lists, k) \/ ~PListEq(Get(b.lists, k), Get(o.lists, k))}
    /\ \A k \in Keys(d.lists) :
           IF HasKey(b.lists, k)
           THEN PListEmitted(Get(b.lists, k), Get(o.lists, k), Get(d.lists, k))
           ELSE Get(d.lists, k) = Get(o.lists, k)

\* C22: diff_pobj(base, other) holds key K iff K is in other and base lacks
\* K or holds another value, with other's value, and never a key other
\* lacks; diff_plist(base, other) holds an object or list key K iff K is in
\* other and base lacks K or the two values differ, as other's whole value
\* when only other has K and as the recursive diff when both have it.
C22_EmissionRule ==
    /\ (Diffed /\ pkind = "pobj") => PObjEmitted(base, other, patch)
    /\ (Diffed /\ pkind = "plist") => PListEmitted(base, other, patch)

\* C22 witness: other has a child list base lacks one level down, in a list
\* both have, and an object both hold with different parameters; the diff
\* holds the new list whole and the object's changed parameter only.
C22_Witness ==
    /\ Diffed /\ pkind = "plist"
    /\ HasKey(base.lists, 1) /\ HasKey(other.lists, 1)
    /\ ~HasKey(Get(base.lists, 1).lists, 1)
    /\ HasKey(Get(other.lists, 1).lists, 1)
    /\ HasKey(patch.lists, 1)
    /\ Get(Get(patch.lists, 1).lists, 1) = Get(Get(other.lists, 1).lists, 1)
    /\ HasKey(base.objects, 1) /\ HasKey(other.objects, 1)
    /\ Len(Get(other.objects, 1)) = 2
    /\ HasKey(patch.objects, 1)
    /\ Len(Get(patch.objects, 1)) = 1

\* The keys of an IndexMap in their order.
KeySeq(m) == [i \in DOMAIN m |-> m[i][1]]

\* C23: the keys of merge_pobj(base, diff_pobj(base, other)) are the keys
\* of other in the same order, and so are the keys of the object mapping
\* and of the list mapping of merge_plist(base, diff_plist(base, other)).
C23_KeyOrderPreserved ==
    /\ PObjMerged => KeySeq(merged) = KeySeq(other)
    /\ PListMerged =>
           /\ KeySeq(merged.objects) = KeySeq(other.objects)
           /\ KeySeq(merged.lists) = KeySeq(other.lists)

\* other has the keys of base and one more, placed before them; the merged
\* object is other as a map and has the new key behind the keys of base.
C23_NewKeyMovedBack ==
    /\ PObjMerged
    /\ Len(base) = 1 /\ Len(other) = 2
    /\ other[2] = base[1]
    /\ ToMap(merged) = ToMap(other)
    /\ KeySeq(merged) = <<other[2][1], other[1][1]>>

\* The keys of other that base lacks or holds with another value, and the
\* keys of base that other lacks.
ChangedKeys(b, o) ==
    {k \in DOMAIN o.hash : k \notin DOMAIN b.hash \/ b.hash[k] # o.hash[k]}

GoneKeys(b, o) == DOMAIN b.hash \ DOMAIN o.hash

\* C24: diff_byml_shallow(base, other) holds exactly the keys of other that
\* base lacks or holds with another value, with other's value, and the
\* keys of base that other lacks, with Null; merge_byml_shallow of base
\* and that diff holds each of the latter keys with the value Null.
C24_ShallowEmissionRule ==
    (pkind = "byml" /\ Diffed) =>
        /\ DOMAIN patch.hash = ChangedKeys(base, other) \cup GoneKeys(base, other)
        /\ \A k \in ChangedKeys(base, other) : patch.hash[k] = other.hash[k]
        /\ \A k \in GoneKeys(base, other) : patch.hash[k] = Null
        /\ ppc = "merged" =>
               \A k \in GoneKeys(base, other) :
                   k \in DOMAIN merged.hash /\ merged.hash[k] = Null

\* C24 witness: the diff holds a sentinel for a key other lacks and other's
\* value for a key other adds, and the merge has taken both.
C24_Witness ==
    /\ BymlMerged
    /\ \E k \in GoneKeys(base, other) :
           base.hash[k] # Null /\ patch.hash[k] = Null /\ merged.hash[k] = Null
    /\ \E k \in DOMAIN other.hash \ DOMAIN base.hash :
           patch.hash[k] = other.hash[k] /\ merged.hash[k] = other.hash[k]

(***************************************************************************)
(* Claims about BymlHashValue.                                             *)
(***************************************************************************)
\* C25: a value is written as the unsigned variant holding it iff it is at
\* least the high bit, the high bit itself included, and otherwise as the
\* signed variant of the same bit pattern; reading the written integer
\* back gives the value again.
C25_HashValueRoundTrip ==
    /\ ppc \in {"emitted", "parsed"} =>
           /\ "U32" \in DOMAIN patch <=> base >= HighBit
           /\ "I32" \in DOMAIN patch <=> base < HighBit
           /\ base >= HighBit => patch.U32 = base
           /\ base < HighBit => patch.I32 = base
    /\ ppc = "parsed" => merged = [ok |-> base]

\* C25 witness: the high bit itself has been written, unsigned, and read
\* back.
C25_Witness ==
    /\ ppc = "parsed"
    /\ base = HighBit
    /\ patch = [U32 |-> HighBit]
    /\ merged = [ok |-> base]

(***************************************************************************)
(* Claims about the mod reader.                                            *)
(***************************************************************************)
LookupCanon == IF pkind = "aoc" THEN "Aoc/0010/B" ELSE "B"

\* The locations of the package in search order, the root being 0.
EntryAt(i) ==
    IF i = 0 THEN base.files[LookupCanon] ELSE base.options[i][LookupCanon]

KindAt(i) == EntryAt(i).kind

HasPath(i) == KindAt(i) # "absent"

FirstWithPath ==
    CHOOSE i \in 0..Len(base.options) :
        HasPath(i) /\ \A j \in 0..(i - 1) : ~HasPath(j)

\* C31: the lookup returns the payload of the mod root when the root has
\* the path, else that of the first active option that has it, and an
\* error when no location has it; a later location's payload is never
\* returned when the root or an earlier option has the path.
C31_FirstHitWins ==
    ppc = "looked" =>
        IF \E i \in 0..Len(base.options) : HasPath(i)
        THEN merged.ok => merged.data = EntryAt(FirstWithPath)
        ELSE ~merged.ok

\* C31: the root of an archive has the path, its entry cannot be read, and
\* the lookup returned the payload of the first option.
C31_LaterOptionReturned ==
    /\ ppc = "looked"
    /\ base.zip
    /\ KindAt(0) = "readerr"
    /\ Len(base.options) >= 1
    /\ merged.ok
    /\ merged.data = Bin(1)

\* C31: where every location that has the path can be read, the first
\* location that has it decides: its bytes, or in an archive the error of
\* decoding them.
C31_OrderWhenReadable ==
    ppc = "looked"
        /\ (\A i \in 0..Len(base.options) : KindAt(i) # "readerr")
        /\ (\E i \in 0..Len(base.options) : HasPath(i))
    => IF base.zip /\ KindAt(FirstWithPath) = "corrupt"
       THEN ~merged.ok
       ELSE merged.ok /\ merged.data = EntryAt(FirstWithPath)

\* The files the base manifest and the manifests of the active options
\* name, and those the inactive options name.
ActiveSet == {other[i] : i \in DOMAIN other}

UnionContent ==
    base.manifest.content_files
        \cup UNION {base.option_manifests[o].content_files : o \in ActiveSet}

UnionAoc ==
    base.manifest.aoc_files
        \cup UNION {base.option_manifests[o].aoc_files : o \in ActiveSet}

\* C32: the manifest of an opened reader is the union of the base manifest
\* with the manifest of every active option, content and add-on files
\* apart and nothing from an inactive option, and file_exists(p) holds iff
\* p is in one of the two sets of that union.
C32_ManifestIsUnion ==
    /\ ppc \in {"opened", "asked"} =>
           /\ patch.manifest.content_files = UnionContent
           /\ patch.manifest.aoc_files = UnionAoc
    /\ ppc = "asked" =>
           (merged.exists <=> merged.name \in UnionContent \cup UnionAoc)

\* C32 witness: a reader opened with one of two options active, the active
\* one adding an add-on file and the inactive one naming a file the union
\* lacks, has answered file_exists for the add-on file.
C32_Witness ==
    /\ ppc = "asked"
    /\ Len(other) = 1
    /\ base.manifest.aoc_files = {}
    /\ UnionAoc = {"B"}
    /\ \E o \in OptionNames \ ActiveSet :
           ~(base.option_manifests[o].content_files \subseteq UnionContent)
    /\ merged.name = "B"
    /\ "B" \notin UnionContent
    /\ merged.exists

(***************************************************************************)
(* Claims about the dump reader's cache.                                   *)
(***************************************************************************)
\* C27: a container that get_file parsed enters the cache together with all
\* its children: in no state that another thread can see is the container
\* cached while one of its children is not.
C27_ContainerWithChildren ==
    \A p \in Paths :
        cache[p].kind = "Sarc" =>
            \A c \in DumpChildren(p) : cache[c].kind # "None"

\* C27: the build of X is between try_get_with and the insertion of the
\* children, and the build of Y is about to look Y up with get_resource,
\* which finds the container cached and Y not.
C27_ChildLookupBetween ==
    /\ phase = "content"
    /\ jobs[<<"content", "X">>].pc = "run"
    /\ Top(<<"content", "X">>).pc = "ins"
    /\ jobs[<<"content", "Y">>].pc = "run"
    /\ Top(<<"content", "Y">>).pc = "res"
    /\ cache["X"].kind = "Sarc"
    /\ cache["Y"].kind = "None"

C29_FailedCallLeavesCache ==
    [][\A t \in Callers :
          /\ jobs'[t] # jobs[t]
          /\ jobs'[t].op = "get_file"
          /\ jobs[t].pc \in {"init", "ins", "wait"}
          /\ ~jobs'[t].ret.ok
          => cache' = cache]_vars

\* C29 witness: get_file of the container whose parse fails after its first
\* child has returned an error, and neither is cached.
C29_Witness ==
    /\ dump["X"] = "garbled"
    /\ \E t \in Callers :
           /\ jobs[t].op = "get_file" /\ jobs[t].path = "X"
           /\ jobs[t].pc = "idle"
           /\ jobs[t].parsed
           /\ ~jobs[t].ret.ok
    /\ Cached(cache) = {}

\* C30: two successive get_resource(p) calls on the reader return equal
\* resources: once one has returned a resource, the next does not fail and
\* does not return another value.
C30_CacheCoherent ==
    \A t \in Callers :
        /\ jobs[t].op = "get_resource"
        /\ jobs[t].prev.op = "get_resource"
        /\ jobs[t].prev.path = jobs[t].path
        /\ jobs[t].prev.ret.ok
        => /\ jobs[t].ret.ok
           /\ jobs[t].ret.res.res = jobs[t].prev.ret.res.res

\* C30: a lookup of Y returned a resource and the next lookup of Y, by the
\* same thread, failed.
C30_SecondLookupFailed ==
    \E t \in Callers :
        /\ jobs[t].op = "get_resource" /\ jobs[t].path = "Y"
        /\ jobs[t].prev.op = "get_resource" /\ jobs[t].prev.path = "Y"
        /\ jobs[t].prev.ret.ok
        /\ ~jobs[t].ret.ok

(***************************************************************************)
(* Claims about the parameter archive of an AI program.                    *)
(***************************************************************************)
\* C26: parsing the archive written from an AI program gives a program
\* equal to it, also when two different entries of the program have the
\* same full name.
C26_SerdeRoundTrip ==
    ppc = "parsed" => IsOk(merged) /\ AIProgramEq(merged.ok, base)

\* C26: two demo actions of one full name and different params have been
\* written and parsed back, and the parsed program holds the first of them
\* under both keys.
C26_SameNameCollapsed ==
    /\ ppc = "parsed"
    /\ base.tree = <<>>
    /\ Keys(base.demos) = {1, 2}
    /\ full_name(Get(base.demos, 1)) = full_name(Get(base.demos, 2))
    /\ ~ActionEq(Get(base.demos, 1), Get(base.demos, 2))
    /\ IsOk(merged)
    /\ ActionEq(Get(merged.ok.demos, 1), Get(base.demos, 1))
    /\ ActionEq(Get(merged.ok.demos, 2), Get(base.demos, 1))

\* C26: a program whose entries all have different full names, whose AIs
\* all have children, has been written and parsed back to an equal program.
C26_RoundTripReached ==
    /\ ppc = "parsed"
    /\ Len(base.tree) = 2
    /\ Len(base.demos) = 2
    /\ IsOk(merged)
    /\ AIProgramEq(merged.ok, base)

\* The full name of an emitted entry, and the ChildIdx values of an emitted
\* AI that the parser reads as AIs.
EmittedName(plist) == JoinStrings(plist.Def.val)

AIChildValues(plist) ==
    IF IsSome(plist.ChildIdx)
    THEN {plist.ChildIdx.val[j][2] : j \in DOMAIN plist.ChildIdx.val}
             \cap (0..(Len(patch.AI) - 1))
    ELSE {}

\* C33: the archive's indices follow a post-order walk, an AI being given
\* its index after all its AI children, and all entries of one full name
\* are written as one entry: no full name is twice in the AI list or twice
\* in the Action list.
C33_PostOrderAndUnique ==
    ppc \in {"written", "parsed"} =>
        /\ \A i \in DOMAIN patch.AI :
               \A c \in AIChildValues(patch.AI[i]) : c < i - 1
        /\ \A i, j \in DOMAIN patch.AI :
               EmittedName(patch.AI[i]) = EmittedName(patch.AI[j]) => i = j
        /\ \A i, j \in DOMAIN patch.Action :
               EmittedName(patch.Action[i]) = EmittedName(patch.Action[j]) => i = j

\* C33: a root has been written at index 0 and its AI child behind it.
C33_ParentBeforeChild ==
    /\ ppc = "written"
    /\ Len(patch.AI) >= 2
    /\ AIChildValues(patch.AI[1]) # {}
    /\ \A c \in AIChildValues(patch.AI[1]) : c > 0

\* C33: the AI list holds two entries of one full name, an AI and the
\* child of it that bears its name.
C33_NameTwice ==
    /\ ppc = "written"
    /\ \E i, j \in DOMAIN patch.AI :
           /\ i < j
           /\ EmittedName(patch.AI[i]) = EmittedName(patch.AI[j])
           /\ (j - 1) \in AIChildValues(patch.AI[i])

\* C33: the actions of one full name are written once: the Action list
\* never holds a full name twice.
C33_ActionNamesUnique ==
    ppc \in {"written", "parsed"} =>
        \A i, j \in DOMAIN patch.Action :
            EmittedName(patch.Action[i]) = EmittedName(patch.Action[j]) => i = j

\* The value v is, by the parser's rule, the position of the action's
\* entry: at or above the length of the AI list, and that much into the
\* Action list.
ActionIndexValid(action, v) ==
    /\ v >= Len(patch.AI)
    /\ LET n == Nth(patch.Action, v - Len(patch.AI))
       IN  /\ IsSome(n)
           /\ EmittedName(n.val) = full_name(action)

RECURSIVE AIIndexValid(_, _)
ChildIndexValid(child, v) ==
    IF IsAI(child) THEN v < Len(patch.AI) /\ AIIndexValid(child.ai, v)
    ELSE ActionIndexValid(child.action, v)

AIIndexValid(ai, v) ==
    LET n == Nth(patch.AI, v)
    IN  /\ IsSome(n)
        /\ EmittedName(n.val) = full_name(ai)
        /\ ai.children # <<>> =>
               /\ IsSome(n.val.ChildIdx)
               /\ \A k \in Keys(ai.children) :
                      /\ HasKey(n.val.ChildIdx.val, k)
                      /\ ChildIndexValid(Get(ai.children, k),
                                         Get(n.val.ChildIdx.val, k))

\* C34: every index the archive holds is valid under the parser's rule:
\* with N the length of the written AI list, a ChildIdx value below N is
\* the position of the child's entry in the AI list, a ChildIdx or
\* DemoAIActionIdx value from N on is, less N, the position of the
\* action's entry in the Action list, and a BehaviorIdx value is the
\* position of the behaviour; also when entries of one name were written
\* once and N is below the number of AIs in the forest.
C34_IndicesValid ==
    ppc \in {"written", "parsed"} =>
        /\ \A r \in DOMAIN base.tree :
               \E v \in 0..(Len(patch.AI) - 1) : AIIndexValid(base.tree[r][2], v)
        /\ \A k \in Keys(base.demos) :
               /\ HasKey(patch.DemoAIActionIdx, k)
               /\ ActionIndexValid(Get(base.demos, k), Get(patch.DemoAIActionIdx, k))
        /\ \A l \in {patch.AI, patch.Action} :
               \A i \in DOMAIN l :
                   IsSome(l[i].BehaviorIdx) =>
                       \A j \in DOMAIN l[i].BehaviorIdx.val :
                           IsSome(Nth(patch.Behavior, l[i].BehaviorIdx.val[j][2]))

\* C34: a forest with more AIs than the written AI list holds, and an
\* action index that lies beyond the Action list once the length of the AI
\* list is taken off, or lands on another action.
C34_ActionIndexShifted ==
    /\ ppc = "written"
    /\ CountRoots(base.tree) > Len(patch.AI)
    /\ \E i \in DOMAIN patch.AI :
           /\ IsSome(patch.AI[i].ChildIdx)
           /\ \E j \in DOMAIN patch.AI[i].ChildIdx.val :
                  LET v == patch.AI[i].ChildIdx.val[j][2]
                  IN  /\ v >= Len(patch.AI)
                      /\ v - CountRoots(base.tree) \in 0..(Len(patch.Action) - 1)
                      /\ v - Len(patch.AI) # v - CountRoots(base.tree)

\* C34: where no entry was left out as already written, every index is
\* valid.
C34_ValidWithoutSharing ==
    ppc \in {"written", "parsed"} /\ CountRoots(base.tree) = Len(patch.AI)
        => /\ \A r \in DOMAIN base.tree :
                  \E v \in 0..(Len(patch.AI) - 1) :
                      AIIndexValid(base.tree[r][2], v)
           /\ \A k \in Keys(base.demos) :
                  /\ HasKey(patch.DemoAIActionIdx, k)
                  /\ ActionIndexValid(Get(base.demos, k),
                                      Get(patch.DemoAIActionIdx, k))

(***************************************************************************)
(* Claims about the mod manager's window.                                  *)
(***************************************************************************)
Moved == pkind = "move" /\ ppc = "moved"

\* The positions of the selected mods in the list q, in selection order.
PlacesOf(q, selected) ==
    [i \in DOMAIN selected |-> CHOOSE k \in DOMAIN q : q[k] = selected[i]]

IsPermutationOf(q, list) ==
    /\ Len(q) = Len(list)
    /\ \A m \in 1..MaxListed :
           Cardinality({k \in DOMAIN q : q[k] = m})
               = Cardinality({k \in DOMAIN list : list[k] = m})

Reordered(q, list, selected) ==
    /\ IsPermutationOf(q, list)
    /\ \A i \in DOMAIN selected :
           i > 1 => PlacesOf(q, selected)[i] = PlacesOf(q, selected)[i - 1] + 1
    /\ SelectSeq(q, LAMBDA m : ~contains(selected, m))
           = SelectSeq(list, LAMBDA m : ~contains(selected, m))

\* C38: MoveSelected(d) does not fail for any d and any selection that is
\* part of the list, the empty list included; the list after it is a
\* permutation of the list before it, with the selected mods on consecutive
\* places in selection order and the unselected mods in their old order, and
\* it is the old list when every mod is selected.
C38_MoveOnlyReorders ==
    Moved =>
        /\ IsOk(merged)
        /\ IF Len(base.selected) = Len(base.mods)
           THEN merged.ok = base.mods
           ELSE Reordered(merged.ok, base.mods, base.selected)

\* On a list that has a mod the message never fails and only reorders.
C38_ReordersWhatIsListed ==
    Moved /\ Len(base.mods) > 0 =>
        /\ IsOk(merged)
        /\ IF Len(base.selected) = Len(base.mods)
           THEN merged.ok = base.mods
           ELSE Reordered(merged.ok, base.mods, base.selected)

\* Two selected mods were moved behind an unselected one.
C38_TwoMoved ==
    /\ Moved
    /\ IsOk(merged)
    /\ Len(base.selected) = 2
    /\ Len(base.mods) = 3
    /\ merged.ok # base.mods
    /\ merged.ok[3] = base.selected[2]

\* The message was handled on an empty list and panicked.
C38_PanicOnEmptyList == Moved /\ base.mods = <<>> /\ ~IsOk(merged)

\* The last n members of the sequence q (all of them when it has fewer).
LastOf(q, n) == IF Len(q) <= n THEN q ELSE SubSeq(q, Len(q) - n + 1, Len(q))

\* C39: after any sequence of Log messages the window keeps at most
\* LogCapacity entries, they are the most recent ones in arrival order, and
\* the formatted job holds exactly the four sections of each kept entry.
C39_LogBounded ==
    pkind = "log" =>
        /\ Len(base.logs) <= LogCapacity
        /\ base.logs = LastOf(merged, LogCapacity)
        /\ Len(base.log.sections) = 4 * Len(base.logs)
        /\ \A i \in DOMAIN base.logs :
               \A k \in 1..4 :
                   base.log.sections[4 * (i - 1) + k].of = base.logs[i]

\* More entries arrived than the window keeps: the oldest one was evicted.
C39_Evicted ==
    /\ pkind = "log"
    /\ Len(merged) > LogCapacity
    /\ Len(base.logs) = LogCapacity
    /\ base.logs[1] # merged[1]

\* The task whose message is at the head of the channel ended in a deploy
\* that was given these files.
AppliedByHead ==
    IF other # <<>> /\ Head(other).type = "ClearChanges"
    THEN Head(other).applied
    ELSE {}

\* C35: no pending change is lost: a path leaves dirty only when the message
\* of a deploy that was given that path and succeeded is handled.  So a
\* change handled between Apply and its ClearChanges stays in dirty, and a
\* failed Apply leaves dirty as it is.
C35_NoPendingChangeLost ==
    [][pkind = "gui" => (base.dirty \ base'.dirty) \subseteq AppliedByHead]_vars

\* A failed task leaves dirty as it is.
C35_FailureKeepsDirty ==
    [][pkind = "gui" /\ other # <<>> /\ Head(other).type = "Error"
           => base'.dirty = base.dirty]_vars

\* ClearChanges is at the head of the channel while dirty holds a path the
\* deploy was not given.
C35_ChangedSinceApply ==
    /\ pkind = "gui"
    /\ ppc = "run"
    /\ other # <<>>
    /\ Head(other).type = "ClearChanges"
    /\ ~(base.dirty \subseteq Head(other).applied)

\* A thread is running, or the message of one is in the channel.
TaskPending ==
    \/ patch # <<>>
    \/ \E i \in DOMAIN other :
           other[i].type \in {"HandleMod", "AddMod", "RemoveMods",
                              "ClearChanges", "Error"}

\* C37: busy is true in every state in which a task started by do_task has
\* not had its message handled; with two tasks started, handling the message
\* of the first leaves busy set while the second runs.
C37_BusyWhileTaskPending ==
    pkind = "gui" /\ ppc = "run" /\ TaskPending => base.busy

\* With one task at a time busy is set until its message is handled.
C37_BusyWithOneTask ==
    [][pkind = "gui" /\ ppc = "run" /\ base.busy /\ ~base'.busy
           /\ Len(patch) + Cardinality({i \in DOMAIN other :
                  other[i].type \in {"HandleMod", "AddMod", "RemoveMods",
                                     "ClearChanges", "Error"}}) = 1
           => patch' = <<>>]_vars

\* A thread runs while the window is not busy.
C37_RunningNotBusy == pkind = "gui" /\ ppc = "run" /\ patch # <<>> /\ ~base.busy

(***************************************************************************)
(* Claims about the AI program entries.                                    *)
(***************************************************************************)
EntryEq(a, b) == IF pkind = "ai" THEN AIEq(a, b) ELSE ActionEq(a, b)

DefaultEntry == IF pkind = "ai" THEN AIEntry_default ELSE ActionEntry_default

\* C16: merging the default entry into an AIEntry or an ActionEntry gives
\* the entry back.
C16_DefaultIsIdentity ==
    (ppc = "applied" /\ patch = DefaultEntry) => EntryEq(merged, base)

\* C17: merging x.diff(y) into x gives y, for AIEntry and for ActionEntry.
C17_EntryReconstruction ==
    ppc = "merged" => EntryEq(merged, other)

\* An Action child that differs in its params between base and other has
\* been diffed and merged, and the merged entry still holds base's child.
C17_ActionChildKept ==
    /\ ppc = "merged" /\ pkind = "ai"
    /\ base.children # <<>> /\ other.children # <<>>
    /\ ~IsAI(base.children[1][2]) /\ ~IsAI(other.children[1][2])
    /\ base.children # other.children
    /\ merged.children = base.children

(***************************************************************************)
(* Claims about the editor's window.                                       *)
(***************************************************************************)
\* C36: whatever the outcome of a background task started with do_task (a
\* result message, an error or a caught panic), busy, once set, is cleared
\* again: it does not stay set for ever.
C36_BusyEventuallyCleared ==
    (pkind = "editor" /\ base.busy) ~> (~base.busy)

\* do_task is the only place where busy is set, and it starts a thread.
C36_TaskSetsBusy ==
    [][pkind = "editor" /\ ~base.busy /\ base'.busy
           => Len(patch') = Len(patch) + 1]_vars

\* busy stays set although no thread is running and the channel is empty.
C36_BusyAtRest ==
    /\ pkind = "editor"
    /\ base.busy
    /\ patch = <<>>
    /\ other = <<>>

(***************************************************************************)
(* Claims about handle_maps.                                               *)
(***************************************************************************)
\* The number of parts a section name has: one more than its underscores.
PartsIn(section) == Cardinality({i \in DOMAIN section : section[i] = "_"}) + 1

\* C40: for every section name of logs/map.yml that does not split on '_'
\* into exactly two parts, handle_maps returns the error "Bad map diff" and
\* the section's closure reads nothing from the dump, writes no file and does
\* not panic; a name of exactly two parts is merged and written.
C40_MalformedRejected ==
    /\ pkind = "maps" =>
           \A s \in DOMAIN merged.ran :
               IF PartsIn(s) # 2
               THEN merged.ran[s] = Ran("Bad map diff", {}, {})
               ELSE MapPath(split(s, "_")[2], s) \in base.present =>
                        /\ merged.ran[s].status = "ok"
                        /\ merged.ran[s].written # {}
    /\ pkind = "maps" /\ ppc = "done" =>
           ((\E s \in base.diff : PartsIn(s) # 2) /\ merged.returned # "not in dump"
                => merged.returned = "Bad map diff")

\* A name of exactly two parts whose unit the dump holds is merged and
\* written, and "Bad map diff" is never returned.
C40_TwoPartsWritten ==
    pkind = "maps" =>
        /\ \A s \in DOMAIN merged.ran :
               /\ merged.ran[s].status # "Bad map diff"
               /\ PartsIn(s) = 2 /\ merged.ran[s].read \subseteq base.present =>
                      /\ merged.ran[s].status = "ok"
                      /\ \E f \in patch : f.path.unit = s
        /\ merged.returned # "Bad map diff"

\* A name without an underscore made handle_maps panic.
C40_OnePartPanics ==
    /\ pkind = "maps"
    /\ ppc = "done"
    /\ merged.returned = "panic"
    /\ \E s \in DOMAIN merged.ran : PartsIn(s) = 1

\* A name of three parts was looked up in the dump, merged and written.
C40_ThreePartsWritten ==
    /\ pkind = "maps"
    /\ ppc = "done"
    /\ merged.returned = "ok"
    /\ \E s \in DOMAIN merged.ran :
           PartsIn(s) = 3 /\ \E f \in patch : f.path.unit = s

(***************************************************************************)
(* Claims about the map merge.                                             *)
(***************************************************************************)
MapMerged == pkind = "map" /\ ppc = "applied"

\* The object of HashId h in a section, if it has one.
ObjOf(objs, h) == objs[CHOOSE i \in DOMAIN objs : objs[i].HashId = h]

\* What the claim requires of a merged section: the objects of base that
\* are not deleted, in order, then the added ones; an object of base named
\* by a mod entry carries the entry's fields over its own, every other
\* object is as it was in base or in add.
SectionAsClaimed(b, d, out) ==
    LET baseIds == {b[i].HashId : i \in DOMAIN b}
        added == SelectSeq(d.add, LAMBDA o : o.HashId \notin baseIds)
        want == SelectSeq(b \o added, LAMBDA o : o.HashId \notin d.del)
    IN  /\ Len(out) = Len(want)
        /\ \A i \in DOMAIN want :
               /\ out[i].HashId = want[i].HashId
               /\ IF want[i].HashId \in DOMAIN d.mod /\ want[i].HashId \in baseIds
                  THEN out[i] = [k \in DOMAIN want[i] \cup DOMAIN d.mod[want[i].HashId] |->
                                    IF k \in DOMAIN d.mod[want[i].HashId]
                                    THEN d.mod[want[i].HashId][k] ELSE want[i][k]]
                  ELSE out[i] = want[i]

\* C11: merge_section applies every mod entry to the object that carries
\* its HashId and to no other, whatever the patch adds and deletes: base
\* [1, 2, 3] with add 4, del 2 and a changed field of 3 gives [1, 3', 4].
C11_ModHitsItsObject ==
    MapMerged =>
        /\ merged.status = "ok"
        /\ SectionAsClaimed(base.Objs, other.Objs, merged.Objs)
        /\ SectionAsClaimed(base.Rails, other.Rails, merged.Rails)

\* The scenario of the claim has been merged and the changed field went to
\* the added object 4, object 3 being left as it was.
C11_ScenarioOutcome ==
    /\ MapMerged
    /\ Len(base.Objs) = 3
    /\ other.Objs = [add |-> <<Obj(4)>>, del |-> {2}, mod |-> (3 :> Entry)]
    /\ merged.status = "ok"
    /\ merged.Objs = <<Obj(1), Obj(3), [Obj(4) EXCEPT !.f = 2]>>

====
